---- MODULE Spec2Model ----
(***************************************************************************)
(* Usage accounting of the PDF assistant backend: TokenManager             *)
(* (backend/llm_integration/token_manager.py) and CostLogger               *)
(* (backend/utils/cost_logger.py), with the daily JSONL log files they     *)
(* append to and summarise.                                                *)
(*                                                                         *)
(* Units.  Money is kept exact: a rate is written in 1e-4 USD per 1000     *)
(* tokens (0.01 USD -> 100, 0.0009 USD -> 9) and a cost in 1e-7 USD, so    *)
(* that (tokens / 1000) * rate is the integer tokens * rate.  The Python   *)
(* code computes in binary floating point; rounding of the last bit is     *)
(* outside this model (decimal arithmetic, not IEEE-754).                  *)
(*                                                                         *)
(* Storage.  A log file is opened in append mode and receives one line per *)
(* record in a single write when the file object is closed; the model      *)
(* takes the POSIX O_APPEND semantics (the write lands whole at the end of *)
(* the file).  Every clock read and every file access is a step of its     *)
(* own, so that callers interleave between them.                           *)
(***************************************************************************)
EXTENDS Integers, Sequences, FiniteSets, TLC

(***************************************************************************)
(* Bounds of the model.                                                    *)
(***************************************************************************)
MaxAppends == 2      \* log_usage / log_cost calls started by concurrent callers
MaxSeqAppends == 3   \* log_usage / log_cost calls made one after the other
MaxSummaries == 2    \* summary calls started in a behaviour
MaxNow == 2          \* the clock stops ticking at this instant
TicksPerDay == 2     \* instants per calendar day in the model's clock

Procs == {"w1", "w2"}          \* concurrent callers
Instants == 0..MaxNow

(***************************************************************************)
(* Python values.  None-able arguments are option records.                 *)
(***************************************************************************)
None == [some |-> FALSE]
Some(v) == [some |-> TRUE, val |-> v]

\* dict.get(key, default)
Get(d, key, default) == IF key \in DOMAIN d THEN d[key] ELSE default

\* datetime.now().strftime("%Y-%m-%d"): the calendar day of an instant
DateOf(t) == t \div TicksPerDay

\* datetime.now().isoformat(): the instant itself, to the microsecond
IsoFormat(t) == t

Dates == {DateOf(t) : t \in Instants}

(***************************************************************************)
(* Pricing (1e-4 USD per 1000 tokens).                                     *)
(***************************************************************************)
DefaultPricing ==
    ("GPT-4o" :> [input |-> 100, output |-> 300]) @@
    ("Gemini-Flash" :> [input |-> 35, output |-> 35]) @@
    ("DeepSeek" :> [input |-> 9, output |-> 9]) @@
    ("Claude" :> [input |-> 80, output |-> 240]) @@
    ("Grok" :> [input |-> 50, output |-> 150])

FallbackPricing == [input |-> 100, output |-> 300]

\* the lookup with no rates for a model that is not in the table
PricingGet_NoFallback(table, model) == Get(table, model, [input |-> 0, output |-> 0])

\* self.model_pricing.get(model, {"input": 0.01, "output": 0.03})
PricingGet(table, model) == Get(table, model, FallbackPricing)

\* calculate_cost with the input tokens priced at the output rate
calculate_cost_OutputRate(table, model, input_tokens, output_tokens) ==
    LET pricing == PricingGet(table, model)
        input_cost == input_tokens * pricing.output
        output_cost == output_tokens * pricing.output
    IN  [input_tokens |-> input_tokens,
         output_tokens |-> output_tokens,
         total_tokens |-> input_tokens + output_tokens,
         input_cost |-> input_cost,
         output_cost |-> output_cost,
         cost |-> input_cost + output_cost]

\* calculate_cost with the output cost left out of the total
calculate_cost_NoOutput(table, model, input_tokens, output_tokens) ==
    LET pricing == PricingGet(table, model)
        input_cost == input_tokens * pricing.input
        output_cost == output_tokens * pricing.output
    IN  [input_tokens |-> input_tokens,
         output_tokens |-> output_tokens,
         total_tokens |-> input_tokens + output_tokens,
         input_cost |-> input_cost,
         output_cost |-> output_cost,
         cost |-> input_cost]

\* calculate_cost whose except branch reports no tokens
calculate_cost_ErrorDropsTokens(table, model, input_tokens, output_tokens) ==
    LET pricing == PricingGet(table, model)
    IN  IF "input" \in DOMAIN pricing /\ "output" \in DOMAIN pricing
        THEN LET input_cost == input_tokens * pricing.input
                 output_cost == output_tokens * pricing.output
                 total_cost == input_cost + output_cost
             IN  [input_tokens |-> input_tokens,
                  output_tokens |-> output_tokens,
                  total_tokens |-> input_tokens + output_tokens,
                  input_cost |-> input_cost,
                  output_cost |-> output_cost,
                  cost |-> total_cost]
        ELSE [input_tokens |-> 0,
              output_tokens |-> 0,
              total_tokens |-> 0,
              input_cost |-> 0,
              output_cost |-> 0,
              cost |-> 0,
              error |-> "KeyError"]

\* TokenManager.calculate_cost
calculate_cost(table, model, input_tokens, output_tokens) ==
    LET pricing == PricingGet(table, model)
    IN  IF "input" \in DOMAIN pricing /\ "output" \in DOMAIN pricing
        THEN LET input_cost == input_tokens * pricing.input
                 output_cost == output_tokens * pricing.output
                 total_cost == input_cost + output_cost
             IN  [input_tokens |-> input_tokens,
                  output_tokens |-> output_tokens,
                  total_tokens |-> input_tokens + output_tokens,
                  input_cost |-> input_cost,
                  output_cost |-> output_cost,
                  cost |-> total_cost]
        ELSE [input_tokens |-> input_tokens,
              output_tokens |-> output_tokens,
              total_tokens |-> input_tokens + output_tokens,
              input_cost |-> 0,
              output_cost |-> 0,
              cost |-> 0,
              error |-> "KeyError"]

(***************************************************************************)
(* JSON.  A Python mapping is a set of items [k, v]; keys and values carry *)
(* their Python type.  json.dumps writes every key as a string and a tuple *)
(* as an array, and raises TypeError on a value it cannot encode;          *)
(* json.loads gives back what the text says.                               *)
(***************************************************************************)
PyStr(s) == [ty |-> "str", s |-> s]
PyInt(s) == [ty |-> "int", s |-> s]
PyTuple(s) == [ty |-> "tuple", s |-> s]
PyList(s) == [ty |-> "list", s |-> s]
PyObject(s) == [ty |-> "object", s |-> s]

EmptyDict == [x \in {} |-> 0]

\* json encoder: dictionary key
JsonKey(k) == PyStr(k.s)

\* json encoder: value
JsonValue(v) == IF v.ty = "tuple" THEN PyList(v.s) ELSE v

JsonItems(items) == {[k |-> JsonKey(it.k), v |-> JsonValue(it.v)] : it \in items}

\* json.dumps raises TypeError unless this holds
JsonSerializable(entry) ==
    "metadata" \in DOMAIN entry =>
        \A it \in entry.metadata :
            /\ it.k.ty \in {"str", "int"}
            /\ it.v.ty \in {"str", "int", "tuple", "list"}

\* the encoder leaving the metadata out of the line
json_dumps_NoMetadata(entry) ==
    [kind |-> "json",
     obj |-> [f \in DOMAIN entry \ {"metadata"} |-> entry[f]]]

\* json.dumps(log_entry) + "\n": one line of a log file
json_dumps(entry) ==
    [kind |-> "json",
     obj |-> IF "metadata" \in DOMAIN entry
             THEN [entry EXCEPT !.metadata = JsonItems(@)]
             ELSE entry]

\* line.strip() is empty
IsBlank(line) == line.kind = "blank"

\* json.loads raises on a line that is not JSON
JsonParses(line) == line.kind = "json"

\* json.loads(line)
json_loads(line) == line.obj

\* one file for every date
TokenLogFile_OneFile(date) == [dir |-> "token_logs", prefix |-> "token_log_", date |-> 0]

(***************************************************************************)
(* Log files: the path of a file is its directory, name prefix and date.   *)
(***************************************************************************)
\* os.path.join(self.log_dir, f"token_log_{today}.jsonl")
TokenLogFile(date) == [dir |-> "token_logs", prefix |-> "token_log_", date |-> date]

\* os.path.join(self.log_dir, f"cost_log_{today}.jsonl")
CostLogFile(date) == [dir |-> "cost_logs", prefix |-> "cost_log_", date |-> date]

\* os.path.exists(log_file)
Exists(files, path) == path \in DOMAIN files

\* the reader taking the first line for a header
ReadLines_SkipFirst(files, path) ==
    IF files[path] = <<>> THEN <<>> ELSE Tail(files[path])

\* the lines a reader gets from a file
ReadLines(files, path) == files[path]

\* the file opened with "w": the write replaces what the file held
AppendLine_Truncate(files, path, line) == (path :> <<line>>) @@ files

\* the file opened with "r+": the write lands at the start of the file
AppendLine_WriteAtStart(files, path, line) ==
    IF Exists(files, path) /\ files[path] # <<>>
    THEN [files EXCEPT ![path] = <<line>> \o Tail(@)]
    ELSE (path :> <<line>>) @@ files

\* with open(log_file, "a") as f: f.write(line); f.write(line)
AppendLine_Twice(files, path, line) ==
    IF Exists(files, path)
    THEN [files EXCEPT ![path] = Append(Append(@, line), line)]
    ELSE (path :> <<line, line>>) @@ files

\* with open(log_file, "a") as f: f.write(line)
AppendLine(files, path, line) ==
    IF Exists(files, path)
    THEN [files EXCEPT ![path] = Append(@, line)]
    ELSE (path :> <<line>>) @@ files

\* with open(log_file, "a") as f: (nothing written)
TouchFile(files, path) ==
    IF Exists(files, path) THEN files ELSE (path :> <<>>) @@ files

(***************************************************************************)
(* TokenManager.log_usage: the entry it builds and its error result.       *)
(***************************************************************************)
\* if metadata:
Truthy(metadata) == metadata.some /\ metadata.val # {}

UsageLogEntry(timestamp, model, operation, cost_info, metadata) ==
    LET log_entry ==
            cost_info @@
            [timestamp |-> timestamp, model |-> model, operation |-> operation]
    IN  IF Truthy(metadata)
        THEN ("metadata" :> metadata.val) @@ log_entry
        ELSE log_entry

\* the error result with the output tokens left out of the total
UsageErrorResult_NoOutput(input_tokens, output_tokens, error) ==
    [input_tokens |-> input_tokens,
     output_tokens |-> output_tokens,
     total_tokens |-> input_tokens,
     cost |-> 0,
     error |-> error]

UsageErrorResult(input_tokens, output_tokens, error) ==
    [input_tokens |-> input_tokens,
     output_tokens |-> output_tokens,
     total_tokens |-> input_tokens + output_tokens,
     cost |-> 0,
     error |-> error]

\* a CostLogger table whose GPT-4o output rate was not updated
CostLoggerPricing_Stale ==
    [DefaultPricing EXCEPT !["GPT-4o"] = [input |-> DefaultPricing["GPT-4o"].input,
                                          output |-> DefaultPricing["GPT-4o"].input]]

(***************************************************************************)
(* CostLogger.log_cost: the costs it computes and the entry it writes.     *)
(***************************************************************************)
CostLoggerPricing == DefaultPricing

LogCostFields(model, token_usage) ==
    LET input_tokens == Get(token_usage, "input_tokens", 0)
        output_tokens == Get(token_usage, "output_tokens", 0)
        pricing == PricingGet(CostLoggerPricing, model)
        input_cost == input_tokens * pricing.input
        output_cost == output_tokens * pricing.output
        total_cost == input_cost + output_cost
    IN  [input_tokens |-> input_tokens,
         output_tokens |-> output_tokens,
         input_cost |-> input_cost,
         output_cost |-> output_cost,
         total_cost |-> total_cost]

\* token_usage["input_cost"] = ...; ["output_cost"] = ...; ["cost"] = ...
UpdateTokenUsage(token_usage, c) ==
    ("input_cost" :> c.input_cost) @@ ("output_cost" :> c.output_cost) @@
    ("cost" :> c.total_cost) @@ token_usage

CostLogEntry(timestamp, model, c) ==
    [timestamp |-> timestamp,
     model |-> model,
     input_tokens |-> c.input_tokens,
     output_tokens |-> c.output_tokens,
     input_cost |-> c.input_cost,
     output_cost |-> c.output_cost,
     total_cost |-> c.total_cost]

(***************************************************************************)
(* TokenManager.get_usage_summary: the fold over the lines of one file.    *)
(***************************************************************************)
\* the summary of a missing file reported as an error
EmptyUsageSummary_NoFileError(target_date) ==
    [date |-> target_date, total_cost |-> 0, total_tokens |-> 0, models |-> EmptyDict,
     error |-> "FileNotFoundError"]

EmptyUsageSummary(target_date) ==
    [date |-> target_date, total_cost |-> 0, total_tokens |-> 0, models |-> EmptyDict]

ErrorSummary(target_date, error) == [date |-> target_date, error |-> error]

\* the loop body with one statement changed: with "tokens_set" the total of
\* the tokens is assigned instead of added, with "op_reset" the operations of
\* the model are replaced by the operation of the entry, with "op_tokens_in"
\* the operation's tokens grow by the input tokens only, with "model_in_set"
\* the model's input_tokens is assigned instead of added
UpdateUsageSummary_Variant(summary, entry, variant) ==
    LET cost == Get(entry, "cost", 0)
        total_tokens == Get(entry, "total_tokens", 0)
        model == Get(entry, "model", "unknown")
        operation == Get(entry, "operation", "unknown")
        model_summary ==
            Get(summary.models, model,
                [cost |-> 0, input_tokens |-> 0, output_tokens |-> 0,
                 operations |-> EmptyDict])
        op_summary ==
            Get(model_summary.operations, operation,
                [count |-> 0, cost |-> 0, tokens |-> 0])
        op_summary2 ==
            [count |-> op_summary.count + 1,
             cost |-> op_summary.cost + cost,
             tokens |-> IF variant = "op_tokens_in"
                        THEN op_summary.tokens + Get(entry, "input_tokens", 0)
                        ELSE op_summary.tokens + total_tokens]
        model_summary2 ==
            [cost |-> model_summary.cost + cost,
             input_tokens |-> IF variant = "model_in_set"
                              THEN Get(entry, "input_tokens", 0)
                              ELSE model_summary.input_tokens
                                      + Get(entry, "input_tokens", 0),
             output_tokens |-> model_summary.output_tokens + Get(entry, "output_tokens", 0),
             operations |-> IF variant = "op_reset"
                            THEN (operation :> op_summary2)
                            ELSE (operation :> op_summary2) @@ model_summary.operations]
    IN  [date |-> summary.date,
         total_cost |-> summary.total_cost + cost,
         total_tokens |-> IF variant = "tokens_set"
                          THEN total_tokens
                          ELSE summary.total_tokens + total_tokens,
         models |-> (model :> model_summary2) @@ summary.models]

UpdateUsageSummary_TokensSet(summary, entry) ==
    UpdateUsageSummary_Variant(summary, entry, "tokens_set")

UpdateUsageSummary_OpReset(summary, entry) ==
    UpdateUsageSummary_Variant(summary, entry, "op_reset")

\* the operation's tokens count the input tokens only
UpdateUsageSummary_OpTokensIn(summary, entry) ==
    UpdateUsageSummary_Variant(summary, entry, "op_tokens_in")

\* the model's input_tokens assigned instead of added
UpdateUsageSummary_ModelInSet(summary, entry) ==
    UpdateUsageSummary_Variant(summary, entry, "model_in_set")

\* the loop body with the model's cost assigned instead of added
UpdateUsageSummary_ModelCostSet(summary, entry) ==
    LET cost == Get(entry, "cost", 0)
        total_tokens == Get(entry, "total_tokens", 0)
        model == Get(entry, "model", "unknown")
        operation == Get(entry, "operation", "unknown")
        model_summary ==
            Get(summary.models, model,
                [cost |-> 0, input_tokens |-> 0, output_tokens |-> 0,
                 operations |-> EmptyDict])
        op_summary ==
            Get(model_summary.operations, operation,
                [count |-> 0, cost |-> 0, tokens |-> 0])
        op_summary2 ==
            [count |-> op_summary.count + 1,
             cost |-> op_summary.cost + cost,
             tokens |-> op_summary.tokens + total_tokens]
        model_summary2 ==
            [cost |-> cost,
             input_tokens |-> model_summary.input_tokens + Get(entry, "input_tokens", 0),
             output_tokens |-> model_summary.output_tokens + Get(entry, "output_tokens", 0),
             operations |-> (operation :> op_summary2) @@ model_summary.operations]
    IN  [date |-> summary.date,
         total_cost |-> summary.total_cost + cost,
         total_tokens |-> summary.total_tokens + total_tokens,
         models |-> (model :> model_summary2) @@ summary.models]

\* the body of the loop for one parsed entry
UpdateUsageSummary(summary, entry) ==
    LET cost == Get(entry, "cost", 0)
        total_tokens == Get(entry, "total_tokens", 0)
        model == Get(entry, "model", "unknown")
        operation == Get(entry, "operation", "unknown")
        model_summary ==
            Get(summary.models, model,
                [cost |-> 0, input_tokens |-> 0, output_tokens |-> 0,
                 operations |-> EmptyDict])
        op_summary ==
            Get(model_summary.operations, operation,
                [count |-> 0, cost |-> 0, tokens |-> 0])
        op_summary2 ==
            [count |-> op_summary.count + 1,
             cost |-> op_summary.cost + cost,
             tokens |-> op_summary.tokens + total_tokens]
        model_summary2 ==
            [cost |-> model_summary.cost + cost,
             input_tokens |-> model_summary.input_tokens + Get(entry, "input_tokens", 0),
             output_tokens |-> model_summary.output_tokens + Get(entry, "output_tokens", 0),
             operations |-> (operation :> op_summary2) @@ model_summary.operations]
    IN  [date |-> summary.date,
         total_cost |-> summary.total_cost + cost,
         total_tokens |-> summary.total_tokens + total_tokens,
         models |-> (model :> model_summary2) @@ summary.models]

RECURSIVE FoldUsageLines(_, _)
FoldUsageLines(lines, summary) ==
    IF lines = <<>> THEN summary
    ELSE IF IsBlank(Head(lines)) THEN FoldUsageLines(Tail(lines), summary)
    ELSE IF ~JsonParses(Head(lines)) THEN ErrorSummary(summary.date, "JSONDecodeError")
    ELSE FoldUsageLines(Tail(lines), UpdateUsageSummary(summary, json_loads(Head(lines))))

\* the summary of the lines read from an existing file
UsageSummaryOf(lines, target_date) == FoldUsageLines(lines, EmptyUsageSummary(target_date))

(***************************************************************************)
(* CostLogger.get_daily_summary: the fold over the lines of one file.      *)
(***************************************************************************)
EmptyDailySummary(target_date) ==
    [date |-> target_date, total_cost |-> 0, total_input_tokens |-> 0,
     total_output_tokens |-> 0, models |-> EmptyDict]

\* entry["total_cost"], entry["input_tokens"], ... raise KeyError when missing
DailyEntryComplete(entry) ==
    {"total_cost", "input_tokens", "output_tokens", "model"} \subseteq DOMAIN entry

UpdateDailySummary(summary, entry) ==
    LET model == entry.model
        model_summary ==
            Get(summary.models, model,
                [cost |-> 0, input_tokens |-> 0, output_tokens |-> 0, call_count |-> 0])
        model_summary2 ==
            [cost |-> model_summary.cost + entry.total_cost,
             input_tokens |-> model_summary.input_tokens + entry.input_tokens,
             output_tokens |-> model_summary.output_tokens + entry.output_tokens,
             call_count |-> model_summary.call_count + 1]
    IN  [date |-> summary.date,
         total_cost |-> summary.total_cost + entry.total_cost,
         total_input_tokens |-> summary.total_input_tokens + entry.input_tokens,
         total_output_tokens |-> summary.total_output_tokens + entry.output_tokens,
         models |-> (model :> model_summary2) @@ summary.models]

RECURSIVE FoldDailyLines(_, _)
FoldDailyLines(lines, summary) ==
    IF lines = <<>> THEN summary
    ELSE IF IsBlank(Head(lines)) THEN FoldDailyLines(Tail(lines), summary)
    ELSE IF ~JsonParses(Head(lines)) THEN ErrorSummary(summary.date, "JSONDecodeError")
    ELSE IF ~DailyEntryComplete(json_loads(Head(lines)))
         THEN ErrorSummary(summary.date, "KeyError")
    ELSE FoldDailyLines(Tail(lines), UpdateDailySummary(summary, json_loads(Head(lines))))

DailySummaryOf(lines, target_date) == FoldDailyLines(lines, EmptyDailySummary(target_date))

(***************************************************************************)
(* Arguments the callers pass.                                             *)
(***************************************************************************)
\* log_usage(model, operation, input_tokens, output_tokens, metadata)
UsageCall(model, operation, input_tokens, output_tokens, metadata) ==
    [model |-> model, operation |-> operation, input_tokens |-> input_tokens,
     output_tokens |-> output_tokens, metadata |-> metadata]

\* the token_usage dictionary LiteLLMClient.generate_response returns
TokenUsage(input_tokens, output_tokens) ==
    [input_tokens |-> input_tokens,
     output_tokens |-> output_tokens,
     total_tokens |-> input_tokens + output_tokens]

\* log_cost(model, token_usage)
CostCall(model, token_usage) == [model |-> model, token_usage |-> token_usage]

PdfName == Some({[k |-> PyStr("pdf_name"), v |-> PyStr("a.pdf")]})

\* the calls concurrent callers make (Spec)
ConcUsageCalls ==
    {UsageCall("GPT-4o", "summarize", 1000, 500, None),
     UsageCall("UnknownModel", "ask_question", 200, 100, PdfName)}
ConcCostCalls ==
    {CostCall("GPT-4o", TokenUsage(1000, 500)),
     CostCall("UnknownModel", TokenUsage(200, 100))}

\* the calls a single caller makes one after the other (SpecSeq)
SeqUsageCalls ==
    {UsageCall("GPT-4o", "summarize", 1000, 500, None),
     UsageCall("GPT-4o", "ask_question", 200, 100, PdfName),
     UsageCall("DeepSeek", "summarize", 200, 100, Some({})),
     UsageCall("UnknownModel", "ask_question", 1000, 1000,
               Some({[k |-> PyInt("1"), v |-> PyStr("a.pdf")]})),
     UsageCall("UnknownModel", "summarize", 0, 500,
               Some({[k |-> PyStr("pages"), v |-> PyTuple("1,2")]})),
     UsageCall("GPT-4o", "ask_question", 200, 100,
               Some({[k |-> PyStr("file"), v |-> PyObject("open file")]}))}
SeqCostCalls ==
    {CostCall("GPT-4o", TokenUsage(1000, 500)),
     CostCall("UnknownModel", TokenUsage(1000, 1000)),
     CostCall("DeepSeek", EmptyDict)}

\* the arguments a single call is made with (SpecCalc)
CalcModels == DOMAIN DefaultPricing \cup {"UnknownModel", "gpt-4o"}
CalcTokens == {-100, 0, 200, 500, 1000}
CalcArgs == {UsageCall(m, "x", i, o, None) : m \in CalcModels, i \in CalcTokens, o \in CalcTokens}

\* a date no call is made on
FarDate == DateOf(MaxNow) + 1
DateArgs == {None} \cup {Some(d) : d \in Dates \cup {FarDate}}

(***************************************************************************)
(* State.                                                                  *)
(***************************************************************************)
VARIABLES
    now,            \* the clock
    fs,             \* the log files: path -> lines
    model_pricing,  \* TokenManager.model_pricing
    pc,             \* where each caller is
    frame,          \* the local variables of the call each caller is in
    last,           \* the call that returned last, with what it returned
    calls,          \* history: every log_usage / log_cost call started
    nSummaries,     \* summary calls started
    arg             \* the arguments under test (SpecCalc)

vars == <<now, fs, model_pricing, pc, frame, last, calls, nSummaries, arg>>

NoFrame == [fn |-> "none"]
NoArg == UsageCall("GPT-4o", "x", 0, 0, None)

Init ==
    /\ now = 0
    /\ fs = EmptyDict
    /\ model_pricing = DefaultPricing
    /\ pc = [p \in Procs |-> "idle"]
    /\ frame = [p \in Procs |-> NoFrame]
    /\ last = NoFrame
    /\ calls = <<>>
    /\ nSummaries = 0
    /\ arg = NoArg

\* history: some caller of P is inside log_usage or log_cost
Appending(P) == \E q \in P : pc[q] \in {"lu_today", "lu_write", "lc_stamp", "lc_write"}

\* the clock advances
Tick ==
    /\ now < MaxNow
    /\ now' = now + 1
    /\ UNCHANGED <<fs, model_pricing, pc, frame, last, calls, nSummaries, arg>>

\* TokenManager(): the default pricing, and the log directory is made if missing
NewTokenManager ==
    /\ model_pricing' = DefaultPricing
    /\ UNCHANGED <<now, fs, pc, frame, last, calls, nSummaries, arg>>

\* CostLogger(): the log directory is made if missing
NewCostLogger ==
    /\ UNCHANGED vars

\* a calculate_cost whose result depends on the log: once a record was
\* appended, the tokens are charged at half their number
CalculateCost_LogDependent(p, model, input_tokens, output_tokens) ==
    /\ pc[p] = "idle"
    /\ last' = [fn |-> "calculate_cost",
                args |-> [model |-> model, input_tokens |-> input_tokens,
                          output_tokens |-> output_tokens],
                val |-> IF fs = << >>
                        THEN calculate_cost(model_pricing, model, input_tokens,
                                            output_tokens)
                        ELSE calculate_cost(model_pricing, model, input_tokens \div 2,
                                            output_tokens \div 2)]
    /\ UNCHANGED <<now, fs, model_pricing, pc, frame, calls, nSummaries, arg>>

\* TokenManager.calculate_cost called on its own
CalculateCost(p, model, input_tokens, output_tokens) ==
    /\ pc[p] = "idle"
    /\ last' = [fn |-> "calculate_cost",
                args |-> [model |-> model, input_tokens |-> input_tokens,
                          output_tokens |-> output_tokens],
                val |-> calculate_cost(model_pricing, model, input_tokens, output_tokens)]
    /\ UNCHANGED <<now, fs, model_pricing, pc, frame, calls, nSummaries, arg>>

(***************************************************************************)
(* TokenManager.log_usage, in the steps other callers can come between.    *)
(***************************************************************************)
\* lines 100-112: the cost, the first clock read, the entry
LogUsageBegin(p, model, operation, input_tokens, output_tokens, metadata) ==
    /\ pc[p] = "idle"
    /\ LET cost_info == calculate_cost(model_pricing, model, input_tokens, output_tokens)
           args == [model |-> model, operation |-> operation,
                    input_tokens |-> input_tokens, output_tokens |-> output_tokens,
                    metadata |-> metadata]
       IN  /\ frame' = [frame EXCEPT ![p] =
                  [fn |-> "log_usage", id |-> Len(calls) + 1, args |-> args,
                   cost_info |-> cost_info,
                   log_entry |-> UsageLogEntry(IsoFormat(now), model, operation,
                                               cost_info, metadata)]]
           /\ calls' = Append(calls, [fn |-> "log_usage", args |-> args,
                                      status |-> "running",
                                      overlapped |-> Appending(Procs \ {p})])
    /\ pc' = [pc EXCEPT ![p] = "lu_today"]
    /\ UNCHANGED <<now, fs, model_pricing, last, nSummaries, arg>>

\* lines 115-116: the second clock read names the file
LogUsageToday(p) ==
    /\ pc[p] = "lu_today"
    /\ frame' = [frame EXCEPT ![p] =
           ("log_file" :> TokenLogFile(DateOf(now))) @@ frame[p]]
    /\ pc' = [pc EXCEPT ![p] = "lu_write"]
    /\ UNCHANGED <<now, fs, model_pricing, last, calls, nSummaries, arg>>

\* lines 119-139: the append and the return; storage may refuse the open
LogUsageWrite(p) ==
    /\ pc[p] = "lu_write"
    /\ LET f == frame[p]
           a == f.args
       IN  \E storage_ok \in BOOLEAN :
              IF ~storage_ok
              THEN /\ fs' = fs
                   /\ last' = [fn |-> "log_usage", id |-> f.id, args |-> a,
                               cost_info |-> f.cost_info,
                               val |-> UsageErrorResult(a.input_tokens,
                                                        a.output_tokens, "OSError")]
                   /\ calls' = [calls EXCEPT ![f.id] =
                          [fn |-> "log_usage", args |-> a, status |-> "failed",
                           overlapped |-> calls[f.id].overlapped,
                           error |-> "OSError"]]
              ELSE IF ~JsonSerializable(f.log_entry)
              THEN /\ fs' = TouchFile(fs, f.log_file)
                   /\ last' = [fn |-> "log_usage", id |-> f.id, args |-> a,
                               cost_info |-> f.cost_info,
                               val |-> UsageErrorResult(a.input_tokens,
                                                        a.output_tokens, "TypeError")]
                   /\ calls' = [calls EXCEPT ![f.id] =
                          [fn |-> "log_usage", args |-> a, status |-> "failed",
                           overlapped |-> calls[f.id].overlapped,
                           error |-> "TypeError"]]
              ELSE /\ fs' = AppendLine(fs, f.log_file, json_dumps(f.log_entry))
                   /\ last' = [fn |-> "log_usage", id |-> f.id, args |-> a,
                               cost_info |-> f.cost_info,
                               val |-> f.cost_info]
                   /\ calls' = [calls EXCEPT ![f.id] =
                          [fn |-> "log_usage", args |-> a, status |-> "appended",
                           overlapped |-> calls[f.id].overlapped,
                           cost_info |-> f.cost_info,
                           log_file |-> f.log_file,
                           line |-> json_dumps(f.log_entry)]]
    /\ frame' = [frame EXCEPT ![p] = NoFrame]
    /\ pc' = [pc EXCEPT ![p] = "idle"]
    /\ UNCHANGED <<now, model_pricing, nSummaries, arg>>

(***************************************************************************)
(* CostLogger.log_cost and _write_to_log.                                  *)
(***************************************************************************)
\* log_cost lines 40-61, _write_to_log lines 88-89: the costs, the update of
\* the caller's token_usage, and the first clock read, which names the file
LogCostBegin(p, model, token_usage) ==
    /\ pc[p] = "idle"
    /\ LET c == LogCostFields(model, token_usage)
           args == [model |-> model, token_usage |-> token_usage]
       IN  /\ frame' = [frame EXCEPT ![p] =
                  [fn |-> "log_cost", id |-> Len(calls) + 1, args |-> args,
                   costs |-> c,
                   token_usage |-> UpdateTokenUsage(token_usage, c),
                   log_file |-> CostLogFile(DateOf(now))]]
           /\ calls' = Append(calls, [fn |-> "log_cost", args |-> args,
                                      status |-> "running",
                                      overlapped |-> Appending(Procs \ {p})])
    /\ pc' = [pc EXCEPT ![p] = "lc_stamp"]
    /\ UNCHANGED <<now, fs, model_pricing, last, nSummaries, arg>>

\* _write_to_log lines 92-100: the second clock read stamps the entry
LogCostStamp(p) ==
    /\ pc[p] = "lc_stamp"
    /\ frame' = [frame EXCEPT ![p] =
           ("log_entry" :> CostLogEntry(IsoFormat(now), frame[p].args.model,
                                        frame[p].costs)) @@ frame[p]]
    /\ pc' = [pc EXCEPT ![p] = "lc_write"]
    /\ UNCHANGED <<now, fs, model_pricing, last, calls, nSummaries, arg>>

\* _write_to_log lines 103-107: the append; a failure is logged and dropped
LogCostWrite(p) ==
    /\ pc[p] = "lc_write"
    /\ LET f == frame[p]
       IN  /\ \E storage_ok \in BOOLEAN :
                 IF storage_ok
                 THEN /\ fs' = AppendLine(fs, f.log_file, json_dumps(f.log_entry))
                      /\ calls' = [calls EXCEPT ![f.id] =
                             [fn |-> "log_cost", args |-> f.args, status |-> "appended",
                              overlapped |-> calls[f.id].overlapped,
                              costs |-> f.costs,
                              log_file |-> f.log_file,
                              line |-> json_dumps(f.log_entry)]]
                 ELSE /\ fs' = fs
                      /\ calls' = [calls EXCEPT ![f.id] =
                             [fn |-> "log_cost", args |-> f.args, status |-> "failed",
                              overlapped |-> calls[f.id].overlapped,
                              error |-> "OSError"]]
           /\ last' = [fn |-> "log_cost", id |-> f.id, args |-> f.args,
                       costs |-> f.costs, token_usage |-> f.token_usage]
    /\ frame' = [frame EXCEPT ![p] = NoFrame]
    /\ pc' = [pc EXCEPT ![p] = "idle"]
    /\ UNCHANGED <<now, model_pricing, nSummaries, arg>>

(***************************************************************************)
(* TokenManager.get_usage_summary and CostLogger.get_daily_summary.        *)
(***************************************************************************)
\* date or datetime.now().strftime("%Y-%m-%d")
TargetDate(date, t) == IF date.some THEN date.val ELSE DateOf(t)

\* lines 153-163: the date, the path and the existence test
UsageSummaryBegin(p, date) ==
    /\ pc[p] = "idle"
    /\ nSummaries < MaxSummaries
    /\ nSummaries' = nSummaries + 1
    /\ LET target_date == TargetDate(date, now)
           log_file == TokenLogFile(target_date)
       IN  IF ~Exists(fs, log_file)
           THEN /\ last' = [fn |-> "get_usage_summary", date |-> date,
                            log_file |-> log_file, at_start |-> <<>>, read_ok |-> TRUE,
                            val |-> EmptyUsageSummary(target_date)]
                /\ UNCHANGED <<pc, frame>>
           ELSE /\ frame' = [frame EXCEPT ![p] =
                       [fn |-> "get_usage_summary", date |-> date,
                        target_date |-> target_date, log_file |-> log_file,
                        at_start |-> fs[log_file]]]
                /\ pc' = [pc EXCEPT ![p] = "us_read"]
                /\ last' = last
    /\ UNCHANGED <<now, fs, model_pricing, calls, arg>>

\* a summary that consumes what it read: the file is emptied after the read
UsageSummaryRead_Consumes(p) ==
    /\ pc[p] = "us_read"
    /\ LET f == frame[p]
       IN  /\ last' = [fn |-> "get_usage_summary", date |-> f.date,
                       log_file |-> f.log_file, at_start |-> f.at_start,
                       read_ok |-> TRUE,
                       val |-> UsageSummaryOf(ReadLines(fs, f.log_file), f.target_date)]
           /\ fs' = [fs EXCEPT ![f.log_file] = << >>]
    /\ frame' = [frame EXCEPT ![p] = NoFrame]
    /\ pc' = [pc EXCEPT ![p] = "idle"]
    /\ UNCHANGED <<now, model_pricing, calls, nSummaries, arg>>

\* lines 174-221: the file is read and folded; storage may refuse the read
UsageSummaryRead(p) ==
    /\ pc[p] = "us_read"
    /\ LET f == frame[p]
       IN  \E read_ok \in BOOLEAN :
              last' = [fn |-> "get_usage_summary", date |-> f.date,
                       log_file |-> f.log_file, at_start |-> f.at_start,
                       read_ok |-> read_ok,
                       val |-> IF read_ok
                               THEN UsageSummaryOf(ReadLines(fs, f.log_file), f.target_date)
                               ELSE ErrorSummary(f.target_date, "OSError")]
    /\ frame' = [frame EXCEPT ![p] = NoFrame]
    /\ pc' = [pc EXCEPT ![p] = "idle"]
    /\ UNCHANGED <<now, fs, model_pricing, calls, nSummaries, arg>>

\* lines 121-132
DailySummaryBegin(p, date) ==
    /\ pc[p] = "idle"
    /\ nSummaries < MaxSummaries
    /\ nSummaries' = nSummaries + 1
    /\ LET target_date == TargetDate(date, now)
           log_file == CostLogFile(target_date)
       IN  IF ~Exists(fs, log_file)
           THEN /\ last' = [fn |-> "get_daily_summary", date |-> date,
                            log_file |-> log_file, at_start |-> <<>>, read_ok |-> TRUE,
                            val |-> EmptyDailySummary(target_date)]
                /\ UNCHANGED <<pc, frame>>
           ELSE /\ frame' = [frame EXCEPT ![p] =
                       [fn |-> "get_daily_summary", date |-> date,
                        target_date |-> target_date, log_file |-> log_file,
                        at_start |-> fs[log_file]]]
                /\ pc' = [pc EXCEPT ![p] = "ds_read"]
                /\ last' = last
    /\ UNCHANGED <<now, fs, model_pricing, calls, arg>>

\* lines 144-179
DailySummaryRead(p) ==
    /\ pc[p] = "ds_read"
    /\ LET f == frame[p]
       IN  \E read_ok \in BOOLEAN :
              last' = [fn |-> "get_daily_summary", date |-> f.date,
                       log_file |-> f.log_file, at_start |-> f.at_start,
                       read_ok |-> read_ok,
                       val |-> IF read_ok
                               THEN DailySummaryOf(ReadLines(fs, f.log_file), f.target_date)
                               ELSE ErrorSummary(f.target_date, "OSError")]
    /\ frame' = [frame EXCEPT ![p] = NoFrame]
    /\ pc' = [pc EXCEPT ![p] = "idle"]
    /\ UNCHANGED <<now, fs, model_pricing, calls, nSummaries, arg>>

(***************************************************************************)
(* The system: concurrent callers, a ticking clock.                        *)
(***************************************************************************)
Next ==
    \/ Tick
    \/ NewTokenManager
    \/ NewCostLogger
    \/ \E p \in Procs, c \in ConcUsageCalls :
          CalculateCost(p, c.model, c.input_tokens, c.output_tokens)
    \/ \E p \in Procs, c \in ConcUsageCalls :
          /\ Len(calls) < MaxAppends
          /\ LogUsageBegin(p, c.model, c.operation, c.input_tokens, c.output_tokens,
                        c.metadata)
    \/ \E p \in Procs : LogUsageToday(p)
    \/ \E p \in Procs : LogUsageWrite(p)
    \/ \E p \in Procs, c \in ConcCostCalls :
          /\ Len(calls) < MaxAppends
          /\ LogCostBegin(p, c.model, c.token_usage)
    \/ \E p \in Procs : LogCostStamp(p)
    \/ \E p \in Procs : LogCostWrite(p)
    \/ \E p \in Procs, d \in DateArgs : UsageSummaryBegin(p, d)
    \/ \E p \in Procs : UsageSummaryRead(p)
    \/ \E p \in Procs, d \in DateArgs : DailySummaryBegin(p, d)
    \/ \E p \in Procs : DailySummaryRead(p)

Spec == Init /\ [][Next]_vars

(***************************************************************************)
(* One caller making its calls one after the other.                        *)
(***************************************************************************)
Caller == "w1"

NextSeq ==
    \/ \E c \in SeqUsageCalls :
          /\ Len(calls) < MaxSeqAppends
          /\ LogUsageBegin(Caller, c.model, c.operation, c.input_tokens, c.output_tokens,
                        c.metadata)
    \/ LogUsageToday(Caller)
    \/ LogUsageWrite(Caller)
    \/ \E c \in SeqCostCalls :
          /\ Len(calls) < MaxSeqAppends
          /\ LogCostBegin(Caller, c.model, c.token_usage)
    \/ LogCostStamp(Caller)
    \/ LogCostWrite(Caller)
    \/ \E d \in DateArgs : UsageSummaryBegin(Caller, d)
    \/ UsageSummaryRead(Caller)
    \/ \E d \in DateArgs : DailySummaryBegin(Caller, d)
    \/ DailySummaryRead(Caller)

SpecSeq == Init /\ [][NextSeq]_vars

(***************************************************************************)
(* One caller, one set of arguments drawn at the start.                    *)
(***************************************************************************)
InitCalc ==
    /\ now = 0
    /\ fs = EmptyDict
    /\ model_pricing = DefaultPricing
    /\ pc = [p \in Procs |-> "idle"]
    /\ frame = [p \in Procs |-> NoFrame]
    /\ last = NoFrame
    /\ calls = <<>>
    /\ nSummaries = 0
    /\ arg \in CalcArgs

NextCalc ==
    \/ CalculateCost(Caller, arg.model, arg.input_tokens, arg.output_tokens)
    \/ /\ Len(calls) < MaxAppends
       /\ LogUsageBegin(Caller, arg.model, arg.operation, arg.input_tokens,
                     arg.output_tokens, arg.metadata)
    \/ LogUsageToday(Caller)
    \/ LogUsageWrite(Caller)
    \/ /\ Len(calls) < MaxAppends
       /\ LogCostBegin(Caller, arg.model,
                       TokenUsage(arg.input_tokens, arg.output_tokens))
    \/ LogCostStamp(Caller)
    \/ LogCostWrite(Caller)

SpecCalc == InitCalc /\ [][NextCalc]_vars

(***************************************************************************)
(* What is read back from the log files.                                   *)
(***************************************************************************)
LogFiles(dir) == {path \in DOMAIN fs : path.dir = dir}

\* the entries of the lines of a file that parse
EntriesOf(path) ==
    {json_loads(fs[path][k]) : k \in {i \in 1..Len(fs[path]) : JsonParses(fs[path][i])}}

LogEntries(dir) == UNION {EntriesOf(path) : path \in LogFiles(dir)}

AppendedCalls == {id \in 1..Len(calls) : calls[id].status = "appended"}

(***************************************************************************)
(* C1: every breakdown calculate_cost returns, the costs log_cost puts     *)
(* into the caller's token_usage and every record log_cost writes have     *)
(* total cost = input cost + output cost.                                  *)
(***************************************************************************)
C1_TotalCostIsSum ==
    /\ last.fn = "calculate_cost" =>
          last.val.cost = last.val.input_cost + last.val.output_cost
    /\ last.fn = "log_usage" /\ "error" \notin DOMAIN last.val =>
          last.val.cost = last.val.input_cost + last.val.output_cost
    /\ last.fn = "log_cost" =>
          last.token_usage["cost"] =
              last.token_usage["input_cost"] + last.token_usage["output_cost"]
    /\ \A e \in LogEntries("cost_logs") : e.total_cost = e.input_cost + e.output_cost

C1_Witness ==
    /\ last.fn = "calculate_cost"
    /\ last.args.model \notin DOMAIN DefaultPricing
    /\ last.val.input_cost > 0 /\ last.val.output_cost > 0
    /\ \E e \in LogEntries("cost_logs") : e.input_cost > 0 /\ e.output_cost > 0

(***************************************************************************)
(* C2: every breakdown calculate_cost and log_usage return, the error      *)
(* result of log_usage included, has total_tokens = input_tokens +         *)
(* output_tokens of the call, and so has every record log_usage appends.   *)
(***************************************************************************)
C2_TotalTokensIsSum ==
    /\ last.fn \in {"calculate_cost", "log_usage"} =>
          /\ last.val.total_tokens = last.args.input_tokens + last.args.output_tokens
          /\ last.val.input_tokens = last.args.input_tokens
          /\ last.val.output_tokens = last.args.output_tokens
    /\ \A e \in LogEntries("token_logs") :
          e.total_tokens = e.input_tokens + e.output_tokens

C2_Witness ==
    /\ last.fn = "log_usage"
    /\ "error" \in DOMAIN last.val
    /\ last.args.input_tokens < 0 /\ last.args.output_tokens > 0
    /\ \E e \in LogEntries("token_logs") : e.total_tokens = 400

(***************************************************************************)
(* C3: for a model of the pricing table and token counts >= 0, the input   *)
(* cost is input_tokens / 1000 times the model's input rate and the output *)
(* cost is output_tokens / 1000 times its output rate; GPT-4o with 1000 in *)
(* and 500 out costs 0.01 + 0.015 = 0.025 USD for 1500 tokens.             *)
(* (rates in 1e-4 USD per 1000 tokens, costs in 1e-7 USD)                  *)
(***************************************************************************)
RatedCosts(c, model, input_tokens, output_tokens) ==
    /\ "error" \notin DOMAIN c
    /\ c.input_cost = input_tokens * DefaultPricing[model].input
    /\ c.output_cost = output_tokens * DefaultPricing[model].output

C3_KnownModelRates ==
    /\ /\ last.fn \in {"calculate_cost", "log_usage"}
       /\ last.args.model \in DOMAIN DefaultPricing
       /\ last.args.input_tokens >= 0 /\ last.args.output_tokens >= 0
       => /\ RatedCosts(IF last.fn = "log_usage" THEN last.cost_info ELSE last.val,
                        last.args.model, last.args.input_tokens,
                        last.args.output_tokens)
          /\ last.fn = "log_usage" /\ "error" \notin DOMAIN last.val =>
                last.val = last.cost_info
    /\ /\ last.fn = "calculate_cost"
       /\ last.args = [model |-> "GPT-4o", input_tokens |-> 1000, output_tokens |-> 500]
       => /\ last.val.input_cost = 100000
          /\ last.val.output_cost = 150000
          /\ last.val.cost = 250000
          /\ last.val.total_tokens = 1500
    /\ /\ last.fn = "log_cost"
       /\ last.args.model \in DOMAIN DefaultPricing
       /\ last.costs.input_tokens >= 0 /\ last.costs.output_tokens >= 0
       => /\ last.costs.input_cost =
                last.costs.input_tokens * DefaultPricing[last.args.model].input
          /\ last.costs.output_cost =
                last.costs.output_tokens * DefaultPricing[last.args.model].output

C3_Witness ==
    /\ last.fn = "calculate_cost"
    /\ last.args = [model |-> "GPT-4o", input_tokens |-> 1000, output_tokens |-> 500]
    /\ last.val.cost = 250000
    /\ \E e \in LogEntries("token_logs") : e.cost = 250000

(***************************************************************************)
(* C4: a model that is not in the pricing table is priced at the fallback  *)
(* rates, 0.01 USD in and 0.03 USD out per 1000 tokens, on every call; it  *)
(* is not rejected: log_usage and log_cost append a record under the name  *)
(* given, and 1000 in with 1000 out costs 0.04 USD.                        *)
(***************************************************************************)
UnknownModel(model) == model \notin DOMAIN DefaultPricing

FallbackCosts(input_cost, output_cost, input_tokens, output_tokens) ==
    /\ input_cost = input_tokens * 100
    /\ output_cost = output_tokens * 300

C4_UnknownModelFallback ==
    /\ last.fn = "calculate_cost" /\ UnknownModel(last.args.model) =>
          /\ "error" \notin DOMAIN last.val
          /\ FallbackCosts(last.val.input_cost, last.val.output_cost,
                           last.args.input_tokens, last.args.output_tokens)
    /\ last.fn = "log_usage" /\ UnknownModel(last.args.model) =>
          /\ "error" \in DOMAIN last.val => last.val.error = "OSError"
          /\ "error" \notin DOMAIN last.val =>
                /\ FallbackCosts(last.val.input_cost, last.val.output_cost,
                                 last.args.input_tokens, last.args.output_tokens)
                /\ last.args.input_tokens = 1000 /\ last.args.output_tokens = 1000
                      => last.val.cost = 400000
                /\ last.id \in AppendedCalls
    /\ last.fn = "log_cost" /\ UnknownModel(last.args.model) =>
          /\ FallbackCosts(last.token_usage["input_cost"], last.token_usage["output_cost"],
                           last.args.token_usage.input_tokens,
                           last.args.token_usage.output_tokens)
          /\ last.args.token_usage.input_tokens = 1000
                /\ last.args.token_usage.output_tokens = 1000
                => last.token_usage["cost"] = 400000
    /\ \A id \in AppendedCalls :
          UnknownModel(calls[id].args.model) =>
             /\ calls[id].log_file \in DOMAIN fs
             /\ \E k \in 1..Len(fs[calls[id].log_file]) :
                   LET e == json_loads(fs[calls[id].log_file][k])
                   IN  /\ fs[calls[id].log_file][k] = calls[id].line
                       /\ e.model = calls[id].args.model
                       /\ calls[id].fn = "log_usage" =>
                             FallbackCosts(e.input_cost, e.output_cost,
                                           calls[id].args.input_tokens,
                                           calls[id].args.output_tokens)
                       /\ calls[id].fn = "log_cost" =>
                             FallbackCosts(e.input_cost, e.output_cost,
                                           calls[id].args.token_usage.input_tokens,
                                           calls[id].args.token_usage.output_tokens)
    /\ \A id1, id2 \in AppendedCalls :
          /\ calls[id1].fn = "log_usage" /\ calls[id2].fn = "log_usage"
          /\ calls[id1].args = calls[id2].args
          => calls[id1].cost_info = calls[id2].cost_info

C4_Witness ==
    /\ last.fn = "log_usage"
    /\ last.args.model = "UnknownModel"
    /\ last.args.input_tokens = 1000 /\ last.args.output_tokens = 1000
    /\ last.val.cost = 400000
    /\ Cardinality({id \in AppendedCalls : calls[id].fn = "log_usage"}) = 2
    /\ \E e \in LogEntries("token_logs") : e.model = "UnknownModel" /\ e.cost = 400000

(***************************************************************************)
(* C5: in every summary get_usage_summary returns, total_cost is the sum   *)
(* of the models' costs and each model's cost is the sum of the costs of   *)
(* its operations.                                                         *)
(***************************************************************************)
RECURSIVE SumF(_)
\* the sum of the values of a function
SumF(f) ==
    IF DOMAIN f = {} THEN 0
    ELSE LET x == CHOOSE x \in DOMAIN f : TRUE
         IN  f[x] + SumF([y \in DOMAIN f \ {x} |-> f[y]])

ReadBack(e) ==
    [model |-> e.model, operation |-> e.operation,
     input_tokens |-> e.input_tokens, output_tokens |-> e.output_tokens,
     total_tokens |-> e.total_tokens,
     input_cost |-> e.input_cost, output_cost |-> e.output_cost, cost |-> e.cost,
     metadata |-> Get(e, "metadata", {})]

PassedMetadata(c) == IF c.args.metadata.some THEN c.args.metadata.val ELSE {}

\* what the call passed and computed, with the metadata given
Written(c, metadata) ==
    [model |-> c.args.model, operation |-> c.args.operation,
     input_tokens |-> c.args.input_tokens, output_tokens |-> c.args.output_tokens,
     total_tokens |-> c.cost_info.total_tokens,
     input_cost |-> c.cost_info.input_cost, output_cost |-> c.cost_info.output_cost,
     cost |-> c.cost_info.cost,
     metadata |-> metadata]

UsageCallsTo(path) ==
    {id \in AppendedCalls : calls[id].fn = "log_usage" /\ calls[id].log_file = path}

LinesReading(path, r) ==
    {k \in 1..Len(fs[path]) : JsonParses(fs[path][k]) /\ ReadBack(json_loads(fs[path][k])) = r}

JsonNative(items) ==
    \A it \in items : it.k.ty = "str" /\ it.v.ty \in {"str", "int", "list"}

C6_RoundTripExact ==
    \A path \in LogFiles("token_logs") :
       /\ Len(fs[path]) = Cardinality(UsageCallsTo(path))
       /\ \A id \in UsageCallsTo(path) :
             LET r == Written(calls[id], PassedMetadata(calls[id]))
             IN  Cardinality(LinesReading(path, r)) =
                    Cardinality({j \in UsageCallsTo(path) :
                                    Written(calls[j], PassedMetadata(calls[j])) = r})

C6_RoundTripJson ==
    \A path \in LogFiles("token_logs") :
       /\ Len(fs[path]) = Cardinality(UsageCallsTo(path))
       /\ \A id \in UsageCallsTo(path) :
             LET r == Written(calls[id], JsonItems(PassedMetadata(calls[id])))
             IN  /\ Cardinality(LinesReading(path, r)) =
                       Cardinality({j \in UsageCallsTo(path) :
                                       Written(calls[j], JsonItems(PassedMetadata(calls[j]))) = r})
                 /\ JsonNative(PassedMetadata(calls[id])) =>
                       r.metadata = PassedMetadata(calls[id])

C6_Witness ==
    \E path \in LogFiles("token_logs") :
       /\ Len(fs[path]) = 3
       /\ \E id \in UsageCallsTo(path) : calls[id].args.metadata = PdfName
       /\ \E id \in UsageCallsTo(path) : ~JsonNative(PassedMetadata(calls[id]))
       /\ \E k \in 1..Len(fs[path]) :
             Get(json_loads(fs[path][k]), "metadata", {}) = PdfName.val
       /\ pc[Caller] = "idle"

(***************************************************************************)
(* C7: the log is append-only: in every step, whoever takes it (log_usage, *)
(* log_cost, a summary, a new TokenManager or CostLogger, the clock),      *)
(* every file that exists still exists afterwards and its lines are a      *)
(* prefix of its lines afterwards.                                         *)
(***************************************************************************)
C7_AppendOnly ==
    [][\A path \in DOMAIN fs :
          /\ path \in DOMAIN fs'
          /\ Len(fs'[path]) >= Len(fs[path])
          /\ SubSeq(fs'[path], 1, Len(fs[path])) = fs[path]]_vars

C7_Witness ==
    \E path \in DOMAIN fs :
       /\ Len(fs[path]) = 2
       /\ fs[path][1] # fs[path][2]
       /\ last.fn \in {"get_usage_summary", "get_daily_summary"}
       /\ last.log_file = path
       /\ \A id \in 1..Len(calls) : calls[id].status = "appended"

(***************************************************************************)
(* C8: concurrent log_usage / log_cost calls do not damage each other's    *)
(* records: every file holds exactly the lines of the calls whose write    *)
(* the storage accepted, one whole parseable line per call, and a call is  *)
(* without a record only when the storage refused its write.               *)
(***************************************************************************)
CallsTo(path) == {id \in AppendedCalls : calls[id].log_file = path}

CompleteRecord(path, line) ==
    /\ JsonParses(line)
    /\ path.dir = "token_logs" =>
          {"timestamp", "model", "operation", "input_tokens", "output_tokens",
           "total_tokens", "input_cost", "output_cost", "cost"}
             \subseteq DOMAIN json_loads(line)
    /\ path.dir = "cost_logs" =>
          {"timestamp", "model", "input_tokens", "output_tokens", "input_cost",
           "output_cost", "total_cost"} = DOMAIN json_loads(line)

C8_OneRecordPerCall ==
    /\ \A path \in DOMAIN fs :
          /\ Len(fs[path]) = Cardinality(CallsTo(path))
          /\ \A k \in 1..Len(fs[path]) : CompleteRecord(path, fs[path][k])
    /\ \A id \in AppendedCalls :
          LET path == calls[id].log_file
          IN  /\ path \in DOMAIN fs
              /\ Cardinality({k \in 1..Len(fs[path]) : fs[path][k] = calls[id].line}) =
                    Cardinality({j \in CallsTo(path) : calls[j].line = calls[id].line})
    /\ \A id \in 1..Len(calls) :
          calls[id].status = "failed" => calls[id].error = "OSError"

C8_Witness ==
    /\ \A p \in Procs : pc[p] = "idle"
    /\ Len(calls) = 2
    /\ calls[2].overlapped
    /\ calls[1].status = "appended" /\ calls[2].status = "appended"
    /\ calls[1].log_file = calls[2].log_file
    /\ calls[1].line # calls[2].line
    /\ Len(fs[calls[1].log_file]) = 2

(***************************************************************************)
(* C9: a summary that was read while callers append (and that the storage  *)
(* let read) is the aggregate of a prefix of the file that holds at least  *)
(* the records appended before the summary began, all of them whole lines  *)
(* written by calls, and it carries no error.                              *)
(***************************************************************************)
SummaryOfLines(fn, lines, target_date) ==
    IF fn = "get_usage_summary"
    THEN UsageSummaryOf(lines, target_date)
    ELSE DailySummaryOf(lines, target_date)

C9_SummaryDuringAppends ==
    last.fn \in {"get_usage_summary", "get_daily_summary"} /\ last.read_ok =>
       /\ "error" \notin DOMAIN last.val
       /\ IF last.log_file \in DOMAIN fs
          THEN LET lines == fs[last.log_file]
               IN  /\ Len(last.at_start) <= Len(lines)
                   /\ SubSeq(lines, 1, Len(last.at_start)) = last.at_start
                   /\ \E n \in Len(last.at_start)..Len(lines) :
                         /\ last.val =
                               SummaryOfLines(last.fn, SubSeq(lines, 1, n), last.val.date)
                         /\ \A k \in 1..n :
                               /\ CompleteRecord(last.log_file, lines[k])
                               /\ \E id \in CallsTo(last.log_file) :
                                     calls[id].line = lines[k]
          ELSE last.val = SummaryOfLines(last.fn, <<>>, last.val.date)

C9_Witness ==
    /\ last.fn = "get_usage_summary" /\ last.read_ok
    /\ last.log_file \in DOMAIN fs
    /\ Len(last.at_start) = 1
    /\ Len(fs[last.log_file]) = 2
    /\ last.val = UsageSummaryOf(fs[last.log_file], last.val.date)
    /\ Cardinality(DOMAIN last.val.models) = 2

(***************************************************************************)
(* C10: every record lies in the file of the date of its own timestamp.    *)
(* The code reads the clock twice, once for the timestamp and once for the *)
(* file name, and the day can change in between.                           *)
(***************************************************************************)
\* the date part of an ISO timestamp
TimestampDate(timestamp) == DateOf(timestamp)

C10_PartitionOfTimestamp ==
    \A path \in DOMAIN fs :
       \A k \in 1..Len(fs[path]) :
          JsonParses(fs[path][k]) =>
             TimestampDate(json_loads(fs[path][k]).timestamp) = path.date

(***************************************************************************)
(* C11: log_usage returns the breakdown calculate_cost gives for its       *)
(* arguments (the same input_cost, output_cost and cost) whether the       *)
(* append to the log file succeeded or failed.  The code returns from its  *)
(* except branch a result with cost 0 and no input_cost / output_cost.     *)
(***************************************************************************)
C11_ReturnsComputedCost ==
    last.fn = "log_usage" =>
       /\ {"input_cost", "output_cost", "cost"} \subseteq DOMAIN last.val
       /\ last.val.input_cost = last.cost_info.input_cost
       /\ last.val.output_cost = last.cost_info.output_cost
       /\ last.val.cost = last.cost_info.cost
       /\ last.cost_info =
             calculate_cost(model_pricing, last.args.model, last.args.input_tokens,
                            last.args.output_tokens)

(***************************************************************************)
(* Log files that something other than this program has written into: a    *)
(* line that is not JSON, or a JSON object without the fields of a record, *)
(* is found at any place of a file.  One caller; the damage is done        *)
(* between its calls.                                                      *)
(***************************************************************************)
MaxDamaged == 1      \* lines put into the log files from outside

\* a line json.loads raises JSONDecodeError on
CorruptLine == [kind |-> "corrupt"]

\* a line json.loads accepts, without the token and cost fields
IncompleteLine == [kind |-> "json", obj |-> [timestamp |-> 0, model |-> "GPT-4o"]]

DamagedLines == {CorruptLine, IncompleteLine}

InsertAt(lines, k, line) ==
    SubSeq(lines, 1, k) \o <<line>> \o SubSeq(lines, k + 1, Len(lines))

NDamaged ==
    Cardinality({x \in {<<path, k>> : path \in DOMAIN fs, k \in 1..MaxAppends + MaxDamaged} :
                    /\ x[2] <= Len(fs[x[1]])
                    /\ fs[x[1]][x[2]] \in DamagedLines})

\* the file gets a line the program did not write, after its first k lines
Damage(path, k, line) ==
    /\ \A p \in Procs : pc[p] = "idle"
    /\ NDamaged < MaxDamaged
    /\ Exists(fs, path)
    /\ k \in 0..Len(fs[path])
    /\ fs' = [fs EXCEPT ![path] = InsertAt(@, k, line)]
    /\ UNCHANGED <<now, model_pricing, pc, frame, last, calls, nSummaries, arg>>

NextDamaged ==
    \/ \E c \in ConcUsageCalls :
          /\ Len(calls) < MaxAppends
          /\ LogUsageBegin(Caller, c.model, c.operation, c.input_tokens, c.output_tokens,
                        c.metadata)
    \/ LogUsageToday(Caller)
    \/ LogUsageWrite(Caller)
    \/ \E c \in ConcCostCalls :
          /\ Len(calls) < MaxAppends
          /\ LogCostBegin(Caller, c.model, c.token_usage)
    \/ LogCostStamp(Caller)
    \/ LogCostWrite(Caller)
    \/ \E d \in DateArgs : UsageSummaryBegin(Caller, d)
    \/ UsageSummaryRead(Caller)
    \/ \E d \in DateArgs : DailySummaryBegin(Caller, d)
    \/ DailySummaryRead(Caller)
    \/ \E path \in DOMAIN fs, k \in 0..MaxAppends + MaxDamaged, line \in DamagedLines :
          Damage(path, k, line)

SpecDamaged == Init /\ [][NextDamaged]_vars

(***************************************************************************)
(* C12: a line that is not JSON is skipped: the summary of a file whose    *)
(* other lines are whole records is the aggregate of those records,        *)
(* wherever the corrupt line stands.  The code parses every non-blank line *)
(* inside one try around the whole read, and the first line that does not  *)
(* parse ends the summary with {date, error}.                              *)
(***************************************************************************)
\* the lines of a file as the summary found them, without those not JSON
ValidLines(lines) == SelectSeq(lines, JsonParses)

C12_CorruptEntrySkipped ==
    /\ last.fn \in {"get_usage_summary", "get_daily_summary"}
    /\ last.read_ok
    /\ \A k \in 1..Len(last.at_start) :
          JsonParses(last.at_start[k]) => CompleteRecord(last.log_file, last.at_start[k])
    => last.val = SummaryOfLines(last.fn, ValidLines(last.at_start), last.val.date)

(***************************************************************************)
(* C13: the summary of a date whose file holds no record (the file does    *)
(* not exist, or exists with no line) is not an error: no error field, all *)
(* totals zero, no model.                                                  *)
(***************************************************************************)
C13_EmptyPartitionSummary ==
    /\ last.fn \in {"get_usage_summary", "get_daily_summary"}
    /\ last.read_ok
    /\ last.log_file \notin DOMAIN fs \/ fs[last.log_file] = <<>>
    => /\ "error" \notin DOMAIN last.val
       /\ last.val.date = last.log_file.date
       /\ last.val.total_cost = 0
       /\ last.val.models = EmptyDict
       /\ last.fn = "get_usage_summary" =>
             /\ last.val.total_tokens = 0
             /\ DOMAIN last.val = {"date", "total_cost", "total_tokens", "models"}
       /\ last.fn = "get_daily_summary" =>
             /\ last.val.total_input_tokens = 0
             /\ last.val.total_output_tokens = 0
             /\ DOMAIN last.val = {"date", "total_cost", "total_input_tokens",
                                   "total_output_tokens", "models"}

C13_Witness ==
    /\ last.fn = "get_usage_summary"
    /\ last.date = Some(FarDate)
    /\ last.log_file \notin DOMAIN fs
    /\ last.val.total_tokens = 0
    /\ \E path \in LogFiles("token_logs") : Len(fs[path]) = 2

(***************************************************************************)
(* C14: the summary does not depend on the order of the records in the     *)
(* file: every summary returned is also the summary of each rearrangement  *)
(* of the lines it was computed from (totals, models and operations        *)
(* alike).  Costs are added exactly (see Units).                           *)
(***************************************************************************)
Perms(n) == {f \in [1..n -> 1..n] : \A i, j \in 1..n : i # j => f[i] # f[j]}

Permuted(lines, f) == [i \in 1..Len(lines) |-> lines[f[i]]]

EntriesRead == [k \in 1..Len(last.at_start) |-> json_loads(last.at_start[k])]

RecordsOf(model) == {k \in DOMAIN EntriesRead : EntriesRead[k].model = model}

RecordsOfOp(model, operation) ==
    {k \in RecordsOf(model) : EntriesRead[k].operation = operation}

C15_PerModelSums ==
    last.fn = "get_usage_summary" /\ last.read_ok =>
       /\ "error" \notin DOMAIN last.val
       /\ DOMAIN last.val.models = {EntriesRead[k].model : k \in DOMAIN EntriesRead}
       /\ \A m \in DOMAIN last.val.models :
             LET ms == last.val.models[m]
             IN  /\ ms.input_tokens =
                       SumF([k \in RecordsOf(m) |-> EntriesRead[k].input_tokens])
                 /\ ms.output_tokens =
                       SumF([k \in RecordsOf(m) |-> EntriesRead[k].output_tokens])
                 /\ DOMAIN ms.operations = {EntriesRead[k].operation : k \in RecordsOf(m)}
                 /\ \A o \in DOMAIN ms.operations :
                       ms.operations[o].count = Cardinality(RecordsOfOp(m, o))
       /\ /\ Len(last.at_start) = 2
          /\ \A k \in 1..2 : EntriesRead[k].model = "GPT-4o"
          /\ \E k \in 1..2 : /\ EntriesRead[k].operation = "summarize"
                             /\ EntriesRead[k].input_tokens = 1000
                             /\ EntriesRead[k].output_tokens = 500
          /\ \E k \in 1..2 : /\ EntriesRead[k].operation = "ask_question"
                             /\ EntriesRead[k].input_tokens = 200
                             /\ EntriesRead[k].output_tokens = 100
          => /\ last.val.models["GPT-4o"].input_tokens = 1200
             /\ last.val.models["GPT-4o"].output_tokens = 600
             /\ DOMAIN last.val.models["GPT-4o"].operations = {"summarize", "ask_question"}
             /\ last.val.models["GPT-4o"].operations["summarize"].count = 1
             /\ last.val.models["GPT-4o"].operations["ask_question"].count = 1

C15_Witness ==
    /\ last.fn = "get_usage_summary" /\ last.read_ok
    /\ Len(last.at_start) = 2
    /\ DOMAIN last.val.models = {"GPT-4o"}
    /\ last.val.models["GPT-4o"].input_tokens = 1200
    /\ last.val.models["GPT-4o"].output_tokens = 600
    /\ Cardinality(DOMAIN last.val.models["GPT-4o"].operations) = 2

(***************************************************************************)
(* Callers that pass what Python lets them pass: a token count that is     *)
(* None, a token_usage without its keys, a pricing table given to the      *)
(* constructor.  The two endpoints take their token_usage from             *)
(* LiteLLMClient.generate_response.                                        *)
(***************************************************************************)
\* token counts as Python values
TokInt(n) == [ty |-> "int", n |-> n]
TokNone == [ty |-> "NoneType", n |-> 0]

\* x / 1000 and x + y raise TypeError unless this holds
IsNumber(x) == x.ty = "int"

\* the integers of a dictionary of numbers
Untag(d) == [k \in DOMAIN d |-> d[k].n]

\* self.model_pricing = model_pricing or {...}
TokenManagerPricing(model_pricing_arg) ==
    IF model_pricing_arg.some /\ DOMAIN model_pricing_arg.val # {}
    THEN model_pricing_arg.val
    ELSE DefaultPricing

\* a table whose entry for DeepSeek has no output rate
BrokenPricing ==
    ("GPT-4o" :> [input |-> 100, output |-> 300]) @@ ("DeepSeek" :> [input |-> 9])

PricingArgs == {None, Some(EmptyDict), Some(BrokenPricing)}

\* the pricing entry lacks a rate: pricing["input"] or pricing["output"] raises
RateMissing(table, model) ==
    ~({"input", "output"} \subseteq DOMAIN PricingGet(table, model))

\* _count_tokens(prompt), _count_tokens(content)
CountedPrompt == 200
CountedContent == 100

\* what the completion API answered
ApiResults ==
    {[status |-> 200, content |-> "answer",
      usage |-> [prompt_tokens |-> TokInt(1000), completion_tokens |-> TokInt(500),
                 total_tokens |-> TokInt(1500)]],
     [status |-> 200, content |-> "answer", usage |-> EmptyDict],
     [status |-> 200, content |-> "answer",
      usage |-> [prompt_tokens |-> TokInt(1000)]],
     [status |-> 200, content |-> "answer",
      usage |-> [prompt_tokens |-> TokNone, completion_tokens |-> TokInt(500),
                 total_tokens |-> TokInt(500)]],
     [status |-> 500, content |-> "", usage |-> EmptyDict]}

\* LiteLLMClient.generate_response: the content and the token_usage
generate_response(result) ==
    IF result.status = 200
    THEN [content |-> result.content,
          token_usage |->
             [input_tokens |-> Get(result.usage, "prompt_tokens", TokInt(CountedPrompt)),
              output_tokens |-> Get(result.usage, "completion_tokens",
                                    TokInt(CountedContent)),
              total_tokens |-> Get(result.usage, "total_tokens",
                                   TokInt(CountedPrompt + CountedContent))]]
    ELSE [content |-> "I apologize",
          token_usage |-> [input_tokens |-> TokInt(CountedPrompt),
                           output_tokens |-> TokInt(0),
                           total_tokens |-> TokInt(CountedPrompt)]]

\* log_cost lines 40-47 go through without a TypeError
LogCostComputes(token_usage) ==
    /\ IsNumber(Get(token_usage, "input_tokens", TokInt(0)))
    /\ IsNumber(Get(token_usage, "output_tokens", TokInt(0)))

Routes == {"ask_question", "summarize"}

\* the request body; "" stands for a field that is missing, null or empty
Payload(model, question, pdf_content, pdf_name) ==
    [model |-> model, question |-> question, pdf_content |-> pdf_content,
     pdf_name |-> pdf_name]

\* raise HTTPException(status_code=400, ...) before the model is called
Rejected(route, payload) ==
    \/ route = "ask_question" /\ payload.question = ""
    \/ payload.pdf_content = "" /\ payload.pdf_name = ""

\* return {"answer": answer, "token_usage": token_usage}
Reply(route, content, token_usage) ==
    IF route = "ask_question"
    THEN [answer |-> content, token_usage |-> token_usage]
    ELSE [summary |-> content, token_usage |-> token_usage]

\* calculate_cost(model, input_tokens, output_tokens) with any token values:
\* with a None the division raises TypeError, and so does the addition
\* input_tokens + output_tokens in the except branch (line 70)
CalculateCostCall(p, model, input_tokens, output_tokens) ==
    IF IsNumber(input_tokens) /\ IsNumber(output_tokens)
    THEN CalculateCost(p, model, input_tokens.n, output_tokens.n)
    ELSE /\ pc[p] = "idle"
         /\ last' = [fn |-> "calculate_cost",
                     args |-> [model |-> model, input_tokens |-> input_tokens,
                               output_tokens |-> output_tokens],
                     raised |-> "TypeError"]
         /\ UNCHANGED <<now, fs, model_pricing, pc, frame, calls, nSummaries, arg>>

\* log_usage with any token values: the TypeError of calculate_cost is caught
\* at line 131, and the addition at line 136 raises it again
LogUsageCall(p, model, operation, input_tokens, output_tokens, metadata) ==
    IF IsNumber(input_tokens) /\ IsNumber(output_tokens)
    THEN LogUsageBegin(p, model, operation, input_tokens.n, output_tokens.n, metadata)
    ELSE /\ pc[p] = "idle"
         /\ last' = [fn |-> "log_usage",
                     args |-> [model |-> model, operation |-> operation,
                               input_tokens |-> input_tokens,
                               output_tokens |-> output_tokens, metadata |-> metadata],
                     raised |-> "TypeError"]
         /\ UNCHANGED <<now, fs, model_pricing, pc, frame, calls, nSummaries, arg>>

\* log_cost with any token_usage: a TypeError in lines 45-46 is caught at
\* line 63 and logged; token_usage is left as it was and nothing is written
LogCostCall(p, model, token_usage) ==
    IF LogCostComputes(token_usage)
    THEN LogCostBegin(p, model, Untag(token_usage))
    ELSE /\ pc[p] = "idle"
         /\ last' = [fn |-> "log_cost",
                     args |-> [model |-> model, token_usage |-> token_usage],
                     token_usage |-> token_usage]
         /\ UNCHANGED <<now, fs, model_pricing, pc, frame, calls, nSummaries, arg>>

\* /ask_question and /summarize: the payload is checked (400), the model is
\* called, and log_cost runs up to its first clock read; when log_cost
\* cannot compute, it returns at once and the reply is sent
EndpointBegin(p, route, payload, result) ==
    /\ pc[p] = "idle"
    /\ LET model == payload.model
           response == generate_response(result)
           token_usage == response.token_usage
           args == [model |-> model, payload |-> payload, result |-> result]
       IN  IF Rejected(route, payload)
           THEN /\ last' = [fn |-> route, args |-> args, status |-> 400]
                /\ UNCHANGED <<pc, frame, calls>>
           ELSE IF ~LogCostComputes(token_usage)
           THEN /\ last' = [fn |-> route, args |-> args, status |-> 200,
                            reply |-> Reply(route, response.content, token_usage)]
                /\ calls' = Append(calls,
                       [fn |-> "log_cost", route |-> route,
                        args |-> [model |-> model, token_usage |-> token_usage],
                        status |-> "failed", overlapped |-> FALSE,
                        error |-> "TypeError"])
                /\ UNCHANGED <<pc, frame>>
           ELSE LET c == LogCostFields(model, Untag(token_usage))
                IN  /\ frame' = [frame EXCEPT ![p] =
                           [fn |-> route, id |-> Len(calls) + 1, args |-> args,
                            content |-> response.content, costs |-> c,
                            token_usage |-> UpdateTokenUsage(token_usage, c),
                            log_file |-> CostLogFile(DateOf(now))]]
                    /\ calls' = Append(calls,
                           [fn |-> "log_cost", route |-> route,
                            args |-> [model |-> model,
                                      token_usage |-> Untag(token_usage)],
                            status |-> "running", overlapped |-> FALSE])
                    /\ pc' = [pc EXCEPT ![p] = "ep_stamp"]
                    /\ last' = last
    /\ UNCHANGED <<now, fs, model_pricing, nSummaries, arg>>

\* _write_to_log lines 92-100 inside the endpoint
EndpointStamp(p) ==
    /\ pc[p] = "ep_stamp"
    /\ frame' = [frame EXCEPT ![p] =
           ("log_entry" :> CostLogEntry(IsoFormat(now), frame[p].args.model,
                                        frame[p].costs)) @@ frame[p]]
    /\ pc' = [pc EXCEPT ![p] = "ep_write"]
    /\ UNCHANGED <<now, fs, model_pricing, last, calls, nSummaries, arg>>

\* _write_to_log lines 103-107, then the reply of the endpoint
EndpointWrite(p) ==
    /\ pc[p] = "ep_write"
    /\ LET f == frame[p]
           cargs == calls[f.id].args
       IN  /\ \E storage_ok \in BOOLEAN :
                 IF storage_ok
                 THEN /\ fs' = AppendLine(fs, f.log_file, json_dumps(f.log_entry))
                      /\ calls' = [calls EXCEPT ![f.id] =
                             [fn |-> "log_cost", route |-> f.fn, args |-> cargs,
                              status |-> "appended", overlapped |-> FALSE,
                              costs |-> f.costs,
                              log_file |-> f.log_file,
                              line |-> json_dumps(f.log_entry)]]
                 ELSE /\ fs' = fs
                      /\ calls' = [calls EXCEPT ![f.id] =
                             [fn |-> "log_cost", route |-> f.fn, args |-> cargs,
                              status |-> "failed", overlapped |-> FALSE,
                              error |-> "OSError"]]
           /\ last' = [fn |-> f.fn, args |-> f.args, status |-> 200,
                       reply |-> Reply(f.fn, f.content, f.token_usage)]
    /\ frame' = [frame EXCEPT ![p] = NoFrame]
    /\ pc' = [pc EXCEPT ![p] = "idle"]
    /\ UNCHANGED <<now, model_pricing, nSummaries, arg>>

\* the calls made (SpecApi)
ApiUsageCalls ==
    {UsageCall("GPT-4o", "summarize", TokInt(1000), TokInt(500), None),
     UsageCall("DeepSeek", "summarize", TokInt(1000), TokInt(500), None),
     UsageCall("GPT-4o", "ask_question", TokNone, TokInt(500), None),
     UsageCall("DeepSeek", "ask_question", TokInt(1000), TokNone, None)}
ApiPayloads ==
    {Payload("GPT-4o", "q", "text", "a.pdf"),
     Payload("UnknownModel", "q", "", "a.pdf"),
     Payload("GPT-4o", "", "", "")}
ApiTokenUsages ==
    {[input_tokens |-> TokInt(1000), output_tokens |-> TokInt(500),
      total_tokens |-> TokInt(1500)],
     EmptyDict,
     [input_tokens |-> TokNone, output_tokens |-> TokInt(500),
      total_tokens |-> TokInt(500)]}

InitApi ==
    /\ now = 0
    /\ fs = EmptyDict
    /\ model_pricing \in {TokenManagerPricing(a) : a \in PricingArgs}
    /\ pc = [p \in Procs |-> "idle"]
    /\ frame = [p \in Procs |-> NoFrame]
    /\ last = NoFrame
    /\ calls = <<>>
    /\ nSummaries = 0
    /\ arg = NoArg

NextApi ==
    \/ \E c \in ApiUsageCalls :
          CalculateCostCall(Caller, c.model, c.input_tokens, c.output_tokens)
    \/ \E c \in ApiUsageCalls :
          /\ Len(calls) < MaxAppends
          /\ LogUsageCall(Caller, c.model, c.operation, c.input_tokens, c.output_tokens,
                          c.metadata)
    \/ LogUsageToday(Caller)
    \/ LogUsageWrite(Caller)
    \/ \E t \in ApiTokenUsages :
          /\ Len(calls) < MaxAppends
          /\ LogCostCall(Caller, "GPT-4o", t)
    \/ LogCostStamp(Caller)
    \/ LogCostWrite(Caller)
    \/ \E route \in Routes, payload \in ApiPayloads, result \in ApiResults :
          /\ Len(calls) < MaxAppends
          /\ EndpointBegin(Caller, route, payload, result)
    \/ EndpointStamp(Caller)
    \/ EndpointWrite(Caller)
    \/ \E d \in DateArgs : UsageSummaryBegin(Caller, d)
    \/ UsageSummaryRead(Caller)
    \/ \E d \in DateArgs : DailySummaryBegin(Caller, d)
    \/ DailySummaryRead(Caller)

SpecApi == InitApi /\ [][NextApi]_vars

(***************************************************************************)
(* C16: no call into the accounting code lets an exception out, whatever   *)
(* the arguments and the storage do, and the endpoints never answer 500    *)
(* because of it.  calculate_cost and log_usage compute                    *)
(* input_tokens + output_tokens inside their except branches, which raises *)
(* again when a token count is None.                                       *)
(***************************************************************************)
C16_NoExceptionEscapes ==
    /\ "raised" \notin DOMAIN last
    /\ last.fn \in Routes => last.status # 500

(***************************************************************************)
(* C17: every reply of /ask_question and /summarize carries a cost in its  *)
(* token_usage: the computed cost when log_cost could compute it (also     *)
(* when the write to the log file failed), and a cost of zero with an      *)
(* error flag when it could not.  log_cost only logs a failed computation: *)
(* the token_usage of the reply then has neither cost nor error.           *)
(***************************************************************************)
\* the token_usage the endpoint handed to log_cost
HandedToLogCost == generate_response(last.args.result).token_usage

C17_ReplyCarriesCost ==
    last.fn \in Routes /\ last.status = 200 =>
       LET token_usage == last.reply.token_usage
       IN  /\ "cost" \in DOMAIN token_usage
           /\ IF LogCostComputes(HandedToLogCost)
              THEN LET c == LogCostFields(last.args.model, Untag(HandedToLogCost))
                   IN  /\ token_usage["cost"] = c.total_cost
                       /\ token_usage["input_cost"] = c.input_cost
                       /\ token_usage["output_cost"] = c.output_cost
              ELSE /\ token_usage["cost"] = 0
                   /\ "error" \in DOMAIN token_usage

(***************************************************************************)
(* C18: a summary that could not be read or aggregated (the storage        *)
(* refused the read, a line is not JSON, a record lacks a field) is        *)
(* returned, not raised, with an error field and with its totals, all      *)
(* zero.  The except branches return {date, error} only.                   *)
(***************************************************************************)
C18_DegradedSummaryHasTotals ==
    last.fn \in {"get_usage_summary", "get_daily_summary"} /\ "error" \in DOMAIN last.val =>
       /\ "date" \in DOMAIN last.val
       /\ "total_cost" \in DOMAIN last.val
       /\ last.val.total_cost = 0
       /\ last.fn = "get_usage_summary" =>
             /\ "total_tokens" \in DOMAIN last.val
             /\ last.val.total_tokens = 0
       /\ last.fn = "get_daily_summary" =>
             /\ {"total_input_tokens", "total_output_tokens"} \subseteq DOMAIN last.val
             /\ last.val.total_input_tokens = 0
             /\ last.val.total_output_tokens = 0

(***************************************************************************)
(* C19: a negative token count is taken as 0: calculate_cost, log_usage    *)
(* and log_cost give for it what they give for 0, and no breakdown and no  *)
(* stored record has a negative token count or a negative cost.  The code  *)
(* multiplies the counts as they come.                                     *)
(***************************************************************************)
Clamp(n) == IF n < 0 THEN 0 ELSE n

NonNegative(e, fields) == \A f \in fields : e[f] >= 0

C19_NegativeClamped ==
    /\ last.fn = "calculate_cost" =>
          last.val = calculate_cost(model_pricing, last.args.model,
                                    Clamp(last.args.input_tokens),
                                    Clamp(last.args.output_tokens))
    /\ last.fn = "log_usage" =>
          last.cost_info = calculate_cost(model_pricing, last.args.model,
                                          Clamp(last.args.input_tokens),
                                          Clamp(last.args.output_tokens))
    /\ last.fn = "log_cost" =>
          last.costs =
             LogCostFields(last.args.model,
                           TokenUsage(Clamp(last.args.token_usage.input_tokens),
                                      Clamp(last.args.token_usage.output_tokens)))
    /\ \A e \in LogEntries("token_logs") :
          NonNegative(e, {"input_tokens", "output_tokens", "total_tokens",
                          "input_cost", "output_cost", "cost"})
    /\ \A e \in LogEntries("cost_logs") :
          NonNegative(e, {"input_tokens", "output_tokens",
                          "input_cost", "output_cost", "total_cost"})

(***************************************************************************)
(* C20: when the pricing entry of the model lacks its input or output      *)
(* rate, calculate_cost (called with integer token counts) does not raise: *)
(* it returns input_cost, output_cost and cost 0, the token counts it was  *)
(* given, and an error field; with both rates present there is no error    *)
(* field.                                                                  *)
(***************************************************************************)
C20_PricingFailureDegrades ==
    last.fn = "calculate_cost" =>
       IF "raised" \in DOMAIN last
       THEN ~(IsNumber(last.args.input_tokens) /\ IsNumber(last.args.output_tokens))
       ELSE IF RateMissing(model_pricing, last.args.model)
            THEN /\ "error" \in DOMAIN last.val
                 /\ last.val.input_cost = 0
                 /\ last.val.output_cost = 0
                 /\ last.val.cost = 0
                 /\ last.val.input_tokens = last.args.input_tokens
                 /\ last.val.output_tokens = last.args.output_tokens
                 /\ last.val.total_tokens =
                       last.args.input_tokens + last.args.output_tokens
            ELSE "error" \notin DOMAIN last.val

C20_Witness ==
    /\ last.fn = "calculate_cost"
    /\ model_pricing = BrokenPricing
    /\ last.args = [model |-> "DeepSeek", input_tokens |-> 1000, output_tokens |-> 500]
    /\ "error" \in DOMAIN last.val
    /\ last.val.cost = 0
    /\ last.val.total_tokens = 1500

\* the requests that reached the model call, and the records of the cost log
ModelInvocations == {id \in DOMAIN calls : "route" \in DOMAIN calls[id]}

CostRecords == SumF([path \in LogFiles("cost_logs") |-> Len(fs[path])])

AccountedOnce ==
    /\ CostRecords =
          Cardinality({id \in AppendedCalls : calls[id].fn = "log_cost"})
    /\ \A id \in ModelInvocations :
          LET c == calls[id]
          IN  c.status = "appended" =>
                 /\ c.log_file \in DOMAIN fs
                 /\ Cardinality({k \in 1..Len(fs[c.log_file]) :
                                    fs[c.log_file][k] = c.line}) =
                       Cardinality({j \in CallsTo(c.log_file) :
                                       calls[j].line = c.line})
    /\ (\A id \in DOMAIN calls : calls[id].status = "appended" /\ id \in ModelInvocations)
          => CostRecords = Cardinality(ModelInvocations)

(***************************************************************************)
(* C21: a request that reached the model call and whose cost record was    *)
(* written has exactly one record in the cost log; the cost log holds one  *)
(* record per written accounting call and no other; when every call so far *)
(* was such a request, the number of records is the number of model        *)
(* invocations; a step adds at most one record, and a request answered     *)
(* with 400 adds none and is not a model invocation.                       *)
(***************************************************************************)
C21_AccountedOnce ==
    /\ []AccountedOnce
    /\ [][/\ CostRecords' <= CostRecords + 1
          /\ (last' # last /\ last'.fn \in Routes /\ last'.status = 400) =>
                fs' = fs /\ calls' = calls]_vars

C21_Witness ==
    /\ last.fn \in Routes
    /\ last.status = 200
    /\ Cardinality(ModelInvocations) = 2
    /\ \A id \in DOMAIN calls : calls[id].status = "appended" /\ id \in ModelInvocations
    /\ CostRecords = 2
    /\ \E id \in ModelInvocations : calls[id].args.token_usage.output_tokens = 0

\* datetime.now() is the naive local time of the host; the local clock is
\* ahead of UTC by the offset of the host's time zone (in ticks)
UtcOffsets == {0, 1}
UtcDateOf(t, offset) == DateOf(t - offset)

(***************************************************************************)
(* C22: a summary called without a date is the summary of today's date in  *)
(* UTC, whatever the time zone of the host: its date is the UTC date of    *)
(* the instant of the call, its result is that of the call with that date  *)
(* given, and that date is the key of the partition a record written at    *)
(* the same instant goes to.                                               *)
(***************************************************************************)
C22_DefaultDateIsUtcToday ==
    last.fn \in {"get_usage_summary", "get_daily_summary"} /\ ~last.date.some =>
       \A offset \in UtcOffsets :
          LET utc_today == UtcDateOf(now, offset)
              written == IF last.fn = "get_usage_summary"
                         THEN TokenLogFile(DateOf(now))
                         ELSE CostLogFile(DateOf(now))
          IN  /\ last.val.date = utc_today
              /\ written.date = utc_today
              /\ last.log_file = written
              /\ last.read_ok =>
                    last.val = SummaryOfLines(last.fn,
                                  IF Exists(fs, written) THEN ReadLines(fs, written)
                                  ELSE << >>, utc_today)

Summaries == {"get_usage_summary", "get_daily_summary"}

\* a step of a summary: its begin (the date, the path, the existence test)
\* or its read
SummaryStep ==
    \/ nSummaries' # nSummaries
    \/ \E p \in Procs : pc[p] \in {"us_read", "ds_read"}

(***************************************************************************)
(* C23: every step of get_usage_summary / get_daily_summary leaves every   *)
(* file as it was (no line added, removed or changed, no file created or   *)
(* deleted), and a summary that follows a summary of the same file with    *)
(* the same lines in it returns the same result.                           *)
(***************************************************************************)
C23_SummaryIsPureView ==
    [][/\ SummaryStep => fs' = fs
       /\ (/\ last.fn \in Summaries
           /\ last'.fn = last.fn
           /\ last'.log_file = last.log_file
           /\ last.read_ok /\ last'.read_ok
           /\ last'.at_start = last.at_start) => last'.val = last.val]_vars

C23_Witness ==
    /\ nSummaries = 2
    /\ last.fn = "get_usage_summary"
    /\ last.read_ok
    /\ Len(last.at_start) = 2
    /\ fs[last.log_file] = last.at_start
    /\ last.val.total_cost > 0
    /\ Cardinality(DOMAIN last.val.models) = 2

(***************************************************************************)
(* C24: what calculate_cost returns is a function of the pricing table and *)
(* of (model, input_tokens, output_tokens) alone, whatever the log holds   *)
(* and whatever was appended before, also by a concurrent caller; and the  *)
(* call changes neither the files, nor the pricing table, nor the history  *)
(* of appends.                                                             *)
(***************************************************************************)
C24_CalculateCostIsPure ==
    [][last'.fn = "calculate_cost" =>
          /\ last'.val = calculate_cost(model_pricing', last'.args.model,
                                        last'.args.input_tokens,
                                        last'.args.output_tokens)
          /\ last' # last =>
                /\ fs' = fs
                /\ model_pricing' = model_pricing
                /\ calls' = calls]_vars

C24_Witness ==
    /\ last.fn = "calculate_cost"
    /\ last.val.cost > 0
    /\ Len(calls) = 2
    /\ \A id \in 1..2 : calls[id].status = "appended"
    /\ \E path \in DOMAIN fs : Len(fs[path]) > 0

\* the cost breakdown a finished log_usage call returned
ReturnedBy(c) ==
    IF c.status = "appended"
    THEN c.cost_info
    ELSE UsageErrorResult(c.args.input_tokens, c.args.output_tokens, c.error)

Breakdown(r) ==
    [f \in {"input_tokens", "output_tokens", "total_tokens",
            "input_cost", "output_cost", "cost"} \cap DOMAIN r |-> r[f]]

\* log_usage calls that have returned and that the storage did not refuse
UsageCallsServed ==
    {id \in DOMAIN calls :
        /\ calls[id].fn = "log_usage"
        /\ calls[id].status \in {"appended", "failed"}
        /\ calls[id].status = "failed" => calls[id].error # "OSError"}

DifferOnlyInMetadata(a, b) ==
    /\ a.model = b.model
    /\ a.operation = b.operation
    /\ a.input_tokens = b.input_tokens
    /\ a.output_tokens = b.output_tokens

StripMetadata(lines) ==
    [k \in 1..Len(lines) |->
        IF JsonParses(lines[k])
        THEN [kind |-> "json",
              obj |-> [f \in DOMAIN lines[k].obj \ {"metadata"} |-> lines[k].obj[f]]]
        ELSE lines[k]]

(***************************************************************************)
(* C25: two log_usage calls that differ only in their metadata (and that   *)
(* the storage did not refuse) return equal cost breakdowns and leave a    *)
(* record alike, so that they lead to equal summaries; the metadata passed *)
(* is in the appended record (as JSON writes it); and a summary is the     *)
(* summary of the records without their metadata.                          *)
(***************************************************************************)
C25_MetadataNotInterpreted ==
    /\ \A i, j \in UsageCallsServed :
          DifferOnlyInMetadata(calls[i].args, calls[j].args) =>
             /\ Breakdown(ReturnedBy(calls[i])) = Breakdown(ReturnedBy(calls[j]))
             /\ calls[i].status = calls[j].status
    /\ \A id \in AppendedCalls :
          calls[id].fn = "log_usage" =>
             Get(json_loads(calls[id].line), "metadata", {}) =
                JsonItems(PassedMetadata(calls[id]))
    /\ last.fn = "get_usage_summary" /\ last.read_ok =>
          last.val = UsageSummaryOf(StripMetadata(last.at_start), last.val.date)

(***************************************************************************)
(* The two implementations side by side: every event is given to           *)
(* TokenManager.log_usage and then to CostLogger.log_cost.                 *)
(***************************************************************************)
MaxEvents == 2

PairEvents ==
    {UsageCall("GPT-4o", "summarize", 1000, 500, None),
     UsageCall("GPT-4o", "ask_question", 200, 100, None),
     UsageCall("DeepSeek", "summarize", 200, 100, None),
     UsageCall("UnknownModel", "ask_question", 1000, 1000, None)}

NextPair ==
    \/ \E e \in PairEvents :
          /\ Len(calls) < 2 * MaxEvents
          /\ Len(calls) % 2 = 0
          /\ LogUsageBegin(Caller, e.model, e.operation, e.input_tokens,
                           e.output_tokens, e.metadata)
    \/ LogUsageToday(Caller)
    \/ LogUsageWrite(Caller)
    \/ /\ Len(calls) % 2 = 1
       /\ LET a == calls[Len(calls)].args
          IN  LogCostBegin(Caller, a.model,
                           TokenUsage(a.input_tokens, a.output_tokens))
    \/ LogCostStamp(Caller)
    \/ LogCostWrite(Caller)
    \/ \E d \in DateArgs : UsageSummaryBegin(Caller, d)
    \/ UsageSummaryRead(Caller)
    \/ \E d \in DateArgs : DailySummaryBegin(Caller, d)
    \/ DailySummaryRead(Caller)

SpecPair == Init /\ [][NextPair]_vars

\* the events, each with its log_usage call and its log_cost call
Events == 1..(Len(calls) \div 2)
UsageCallOf(k) == calls[2 * k - 1]
CostCallOf(k) == calls[2 * k]

AllAccounted ==
    /\ pc[Caller] = "idle"
    /\ Len(calls) % 2 = 0
    /\ \A id \in DOMAIN calls : calls[id].status = "appended"

LinesOf(path) == IF Exists(fs, path) THEN ReadLines(fs, path) ELSE << >>

SummariesAgree(usage, daily) ==
    /\ daily.total_cost = usage.total_cost
    /\ daily.total_input_tokens + daily.total_output_tokens = usage.total_tokens
    /\ DOMAIN daily.models = DOMAIN usage.models
    /\ \A m \in DOMAIN daily.models :
          /\ daily.models[m].cost = usage.models[m].cost
          /\ daily.models[m].input_tokens = usage.models[m].input_tokens
          /\ daily.models[m].output_tokens = usage.models[m].output_tokens
          /\ daily.models[m].call_count =
                SumF([o \in DOMAIN usage.models[m].operations |->
                         usage.models[m].operations[o].count])

(***************************************************************************)
(* C26: run side by side on the same events, log_cost and log_usage        *)
(* compute equal input cost, output cost and total cost for every event;   *)
(* and once every event is in both logs, the summary one of them returns   *)
(* for a date agrees with the summary of the other for that date: on       *)
(* total_cost, on each model's cost, input_tokens and output_tokens, with  *)
(* call_count equal to the sum of the operation counts and                 *)
(* total_input_tokens + total_output_tokens equal to total_tokens.         *)
(***************************************************************************)
C26_ImplementationsAgree ==
    /\ \A k \in Events :
          LET u == UsageCallOf(k)
              c == CostCallOf(k)
              cost_info == calculate_cost(model_pricing, u.args.model,
                                          u.args.input_tokens, u.args.output_tokens)
              costs == LogCostFields(c.args.model, c.args.token_usage)
          IN  /\ c.args.model = u.args.model
              /\ costs.input_cost = cost_info.input_cost
              /\ costs.output_cost = cost_info.output_cost
              /\ costs.total_cost = cost_info.cost
              /\ u.status = "appended" => u.cost_info = cost_info
              /\ c.status = "appended" => c.costs = costs
    /\ AllAccounted /\ last.fn = "get_usage_summary" /\ last.read_ok =>
          SummariesAgree(last.val,
                         DailySummaryOf(LinesOf(CostLogFile(last.val.date)),
                                        last.val.date))
    /\ AllAccounted /\ last.fn = "get_daily_summary" /\ last.read_ok =>
          SummariesAgree(UsageSummaryOf(LinesOf(TokenLogFile(last.val.date)),
                                        last.val.date),
                         last.val)

C26_Witness ==
    /\ AllAccounted
    /\ Len(calls) = 2 * MaxEvents
    /\ last.fn = "get_daily_summary"
    /\ last.read_ok
    /\ last.val.total_cost > 0
    /\ \E m \in DOMAIN last.val.models : last.val.models[m].call_count = 2
    /\ UsageCallOf(1).args.operation # UsageCallOf(2).args.operation

PartitionsIsolated ==
    /\ \A path \in DOMAIN fs :
          \A k \in 1..Len(fs[path]) :
             \E id \in CallsTo(path) : calls[id].line = fs[path][k]
    /\ SumF([path \in DOMAIN fs |-> Len(fs[path])]) = Cardinality(AppendedCalls)
    /\ last.fn \in Summaries /\ last.read_ok =>
          /\ last.log_file.date = last.val.date
          /\ last.log_file.dir = IF last.fn = "get_usage_summary"
                                 THEN "token_logs" ELSE "cost_logs"
          /\ LET lines == LinesOf(last.log_file)
             IN  \E n \in Len(last.at_start)..Len(lines) :
                    last.val = SummaryOfLines(last.fn, SubSeq(lines, 1, n),
                                              last.val.date)

(***************************************************************************)
(* C27: every record lies in the file of the date key it was written       *)
(* under and in no other (the records of all files are as many as the      *)
(* appends); the summary of date d is the summary of records of the file   *)
(* of d alone; and a step changes at most one file, so that an append      *)
(* under another date leaves the file of d as it was.                      *)
(***************************************************************************)
C27_PartitionsIsolated ==
    /\ []PartitionsIsolated
    /\ [][Cardinality({path \in DOMAIN fs' :
                          path \notin DOMAIN fs \/ fs'[path] # fs[path]}) <= 1]_vars

C27_Witness ==
    /\ last.fn = "get_usage_summary"
    /\ last.read_ok
    /\ Cardinality(LogFiles("token_logs")) = 2
    /\ \A path \in LogFiles("token_logs") : Len(fs[path]) = 1
    /\ Len(last.at_start) = 1
    /\ \E id \in CallsTo(last.log_file) :
          /\ last.val.total_cost = calls[id].cost_info.cost
          /\ last.val.total_cost > 0
    /\ \E id \in AppendedCalls :
          /\ calls[id].log_file # last.log_file
          /\ calls[id].cost_info.cost # last.val.total_cost

(***************************************************************************)
(* C28: with non-negative token counts, in every summary get_usage_summary *)
(* returns, total_tokens is the sum over the models of input_tokens +      *)
(* output_tokens, each model's input_tokens + output_tokens is the sum of  *)
(* the tokens of its operations, and the counts of all operations add up   *)
(* to the number of records of the partition.                              *)
(***************************************************************************)
C28_TokenFiguresConsistent ==
    last.fn = "get_usage_summary" /\ last.read_ok =>
       LET models == last.val.models
       IN  /\ last.val.total_tokens =
                 SumF([m \in DOMAIN models |->
                          models[m].input_tokens + models[m].output_tokens])
           /\ \A m \in DOMAIN models :
                 models[m].input_tokens + models[m].output_tokens =
                    SumF([o \in DOMAIN models[m].operations |->
                             models[m].operations[o].tokens])
           /\ SumF([m \in DOMAIN models |->
                       SumF([o \in DOMAIN models[m].operations |->
                                models[m].operations[o].count])]) =
                 Len(last.at_start)
           /\ last.at_start = LinesOf(last.log_file)

C28_Witness ==
    /\ last.fn = "get_usage_summary"
    /\ last.read_ok
    /\ Len(last.at_start) = 3
    /\ Cardinality(DOMAIN last.val.models) = 2
    /\ \E m \in DOMAIN last.val.models :
          /\ Cardinality(DOMAIN last.val.models[m].operations) = 2
          /\ last.val.models[m].input_tokens = 1200
          /\ last.val.models[m].output_tokens = 600
    /\ last.val.total_tokens > 1800

\* no figure of the usage summary a is above its figure in b, and every
\* model and operation entry of a is in b
UsageSummaryLeq(a, b) ==
    /\ a.total_cost <= b.total_cost
    /\ a.total_tokens <= b.total_tokens
    /\ DOMAIN a.models \subseteq DOMAIN b.models
    /\ \A m \in DOMAIN a.models :
          /\ a.models[m].cost <= b.models[m].cost
          /\ a.models[m].input_tokens <= b.models[m].input_tokens
          /\ a.models[m].output_tokens <= b.models[m].output_tokens
          /\ DOMAIN a.models[m].operations \subseteq DOMAIN b.models[m].operations
          /\ \A o \in DOMAIN a.models[m].operations :
                /\ a.models[m].operations[o].count <= b.models[m].operations[o].count
                /\ a.models[m].operations[o].cost <= b.models[m].operations[o].cost
                /\ a.models[m].operations[o].tokens <= b.models[m].operations[o].tokens

\* the summaries of the earlier states of the file the summary in last was
\* read from: the file only grows, so these are the summaries of its prefixes
EarlierSummaries ==
    {UsageSummaryOf(SubSeq(last.at_start, 1, n), last.val.date) :
        n \in 0..Len(last.at_start)}

C30_FailedCallAccounted ==
    last.fn \in Routes /\ last.status # 400 =>
       LET result == last.args.result
           token_usage == generate_response(result).token_usage
       IN  /\ result.status # 200 =>
                 LET c == LogCostFields(last.args.model, Untag(token_usage))
                     reply_usage == last.reply.token_usage
                 IN  /\ last.status = 200
                     /\ generate_response(result).content = "I apologize"
                     /\ last.reply = Reply(last.fn, "I apologize", reply_usage)
                     /\ reply_usage.output_tokens = TokInt(0)
                     /\ reply_usage.total_tokens = reply_usage.input_tokens
                     /\ reply_usage.output_cost = 0
                     /\ reply_usage.cost = c.input_cost
                     /\ \E id \in ModelInvocations :
                           /\ calls[id].route = last.fn
                           /\ Get(calls[id], "error", "") # "TypeError"
                           /\ calls[id].args = [model |-> last.args.model,
                                                token_usage |-> Untag(token_usage)]
                           /\ calls[id].status \in {"appended", "failed"}
                           /\ calls[id].status = "appended" =>
                                 /\ \E k \in 1..Len(fs[calls[id].log_file]) :
                                       fs[calls[id].log_file][k] = calls[id].line
                                 /\ json_loads(calls[id].line).output_tokens = 0
                                 /\ json_loads(calls[id].line).output_cost = 0
                                 /\ json_loads(calls[id].line).total_cost = c.input_cost
           /\ (\A k \in DOMAIN token_usage : IsNumber(token_usage[k])) =>
                 token_usage.total_tokens.n =
                    token_usage.input_tokens.n + token_usage.output_tokens.n

====
